---- MODULE Spec2Model ----
(***************************************************************************)
(* A state-machine model of vidi.js: the NestProxy reactive wrapper, the   *)
(* VidiView path handler (getPath / setPath / deletePath) and the render   *)
(* scheduler (render / lock / unlock / the debounce timer).                *)
(*                                                                         *)
(* JavaScript objects are kept in a heap so that object identity (the      *)
(* wrapper's target against the object stored in the model) is explicit.   *)
(* Every operator that models a method takes the whole program state as a  *)
(* record s and returns the state after the call; a thrown exception is    *)
(* the field err, the returned value the field ret.                        *)
(***************************************************************************)
EXTENDS Integers, Sequences, FiniteSets, TLC

VARIABLES
    heap,           \* the JavaScript objects: $data is object 1
    wr,             \* the NestProxy instances: view is wrapper 1
    held,           \* the wrapper handles the caller has obtained
    lock,           \* self.$renderlock
    once,           \* self.renderedOnce
    renderTimeout,  \* self.renderTimeout: a timer id, 0 when absent
    timers,         \* the timers the host has pending
    bound,          \* init() has set self.$template
    el,             \* self.$el is set
    shown,          \* the model content the last executed render used
    created,        \* how often the "created" hook has been called
    updates,        \* "updated" hook calls since the last executed render
    dirty,          \* history: the model changed since lock()
    log,            \* the events of the last step, in order
    err,            \* the exception the last step threw to its caller
    ops,            \* caller operations so far
    lastOp,         \* the last step
    def,            \* the unit's definition: its hooks and watches
    dom,            \* the template, the output trees and the loop cache
    call            \* a function applied to given arguments, and its result

vars == <<heap, wr, held, lock, once, renderTimeout, timers, bound, el, shown,
          created, updates, dirty, log, err, ops, lastOp, def, dom, call>>

\* ------------------------------------------------------------------ bounds
\* Number of caller operations (read / write / erase through a handle,
\* lock, unlock).
MaxOps == 3

\* Property names used at every level of the model, in for-in order.
PropSeq == <<"p", "q">>
Props == {PropSeq[i] : i \in 1..Len(PropSeq)}

\* ------------------------------------------------------------------ values
Absent == [t |-> "absent", v |-> 0]
Null == [t |-> "null", v |-> 0]
Elem == [t |-> "elem", v |-> 0]
Num(n) == [t |-> "num", v |-> n]
Bool(b) == [t |-> "bool", v |-> IF b THEN 1 ELSE 0]
Ref(i) == [t |-> "ref", v |-> i]
Handle(w) == [t |-> "handle", v |-> w]

NoKeys == [k \in Props |-> Absent]
EmptyObj == [kind |-> "obj", f |-> NoKeys]
EmptyArr == [kind |-> "arr", f |-> NoKeys]

\* The strings a control can hold, by index: "", "1", "abc", "xyz", "on".
TextTable == <<"", "1", "abc", "xyz", "on">>
Text(i) == [t |-> "str", v |-> i]
TextOf(str) == Text(CHOOSE i \in DOMAIN TextTable : TextTable[i] = str)

\* JavaScript truthiness, typeof x == "object", and x == undefined.
Truthy(x) == \/ x.t \in {"ref", "handle", "elem", "func", "host"}
             \/ x.t \in {"num", "bool"} /\ x.v # 0
             \/ x.t = "str" /\ x # TextOf("")
TypeofObject(x) == x.t \in {"null", "ref", "handle", "elem"}
LooseUndef(x) == x.t \in {"absent", "null"}

\* obj[key] for a value obj: a property of a primitive is undefined.
GetProp(s, obj, key) == IF obj.t = "ref" THEN s.heap[obj.v].f[key] ELSE Absent

\* The own keys of heap object i, and the same in enumeration order.
KeysOf(s, i) == {k \in Props : s.heap[i].f[k].t # "absent"}

\* ------------------------------------------------------------- state record
State == [heap |-> heap, wr |-> wr, lock |-> lock, once |-> once,
          renderTimeout |-> renderTimeout, timers |-> timers,
          bound |-> bound, el |-> el, shown |-> shown,
          created |-> created, updates |-> updates,
          log |-> <<>>, err |-> "", ret |-> Absent]

Event(e, path, val) == [e |-> e, path |-> path, val |-> val]
Log(s, e, path, val) == [s EXCEPT !.log = Append(@, Event(e, path, val))]
Throw(s, kind) == [s EXCEPT !.err = kind]
Return(s, x) == [s EXCEPT !.ret = x]

SetField(s, i, key, x) == [s EXCEPT !.heap[i].f[key] = x]
SetSub(s, w, key, c) == [s EXCEPT !.wr[w].sub[key] = c]
AllocEmpty(s) == [s EXCEPT !.heap = Append(@, EmptyObj)]
NewWrapper(s, tgt, parent, key) ==
    [s EXCEPT !.wr = Append(@, [target |-> tgt, parent |-> parent, key |-> key,
                                sub |-> [k \in Props |-> 0]])]

\* The model's content as a set of <<path, leaf>> pairs.
RECURSIVE Flat(_, _, _)
Flat(s, x, prefix) ==
    IF x.t = "ref"
    THEN {<<prefix, [t |-> s.heap[x.v].kind, v |-> 0]>>} \cup
         UNION {Flat(s, s.heap[x.v].f[k], Append(prefix, k)) : k \in KeysOf(s, x.v)}
    ELSE {<<prefix, x>>}

ModelContent(s) == Flat(s, Ref(1), <<>>)

\* --------------------------------------------------------------- NestProxy
\* keypath(plus): the keys from the root wrapper down to wrapper w.
RECURSIVE keypathOf(_, _)
keypathOf(s, w) ==
    IF s.wr[w].parent = 0 THEN <<>>
    ELSE Append(keypathOf(s, s.wr[w].parent), s.wr[w].key)

keypath(s, w, plus) == Append(keypathOf(s, w), plus)

\* ---------------------------------------------------- VidiView: the Handler
\* getPath: walks $data along path; stops at the first falsy value.
RECURSIVE getWalk(_, _, _, _)
getWalk(s, obj, path, i) ==
    IF i > Len(path) THEN obj
    ELSE IF ~TypeofObject(obj) THEN Absent
    ELSE LET nxt == GetProp(s, obj, path[i])
         IN IF ~Truthy(nxt) THEN nxt ELSE getWalk(s, nxt, path, i + 1)

getPath(s, path) ==
    IF path[1] = "$el" THEN (IF s.el THEN Elem ELSE Null)
    ELSE IF Len(path) = 1 /\ path[1] = "$isView" THEN Bool(TRUE)
    ELSE getWalk(s, Ref(1), path, 1)

\* The loop over the intermediate segments shared by setPath and deletePath:
\* the parent object of the last key, or Absent when the loop throws.
\* (mutant) the walk stops at the deepest object that exists instead of
\* throwing.
RECURSIVE walkParentLenient(_, _, _, _)
walkParentLenient(s, obj, path, idx) ==
    IF idx >= Len(path) THEN obj
    ELSE IF LooseUndef(GetProp(s, obj, path[idx])) THEN obj
    ELSE walkParentLenient(s, GetProp(s, obj, path[idx]), path, idx + 1)

RECURSIVE walkParent(_, _, _, _)
walkParent(s, obj, path, idx) ==
    IF idx >= Len(path) THEN obj
    ELSE IF LooseUndef(GetProp(s, obj, path[idx])) THEN Absent
    ELSE walkParent(s, GetProp(s, obj, path[idx]), path, idx + 1)

RECURSIVE setProperty(_, _, _, _, _)
RECURSIVE fanout(_, _, _, _)
RECURSIVE setPath(_, _, _)
RECURSIVE render(_)
RECURSIVE dorender(_)
RECURSIVE RunHook(_)

\* The body of an "updated" / "created" hook of kind "write": it writes a
\* fixed primitive to a fixed top-level key through this.view. A hook of
\* kind "noop" touches nothing; kind "none" is a unit without the hook.
HookProp == "q"
HookVal == Num(1)
RunHook(s) == setProperty(s, 1, HookProp, HookVal, FALSE)

\* The host's timers: clearTimeout(id) drops a pending timer, setTimeout
\* registers the render callback and stores its id in self.renderTimeout.
clearTimeout(s, id) ==
    [Log(s, "cancel", <<>>, Absent) EXCEPT !.timers = @ \ {id}]

FreshTimer(s) == CHOOSE id \in 1..(Cardinality(s.timers) + 1) : id \notin s.timers

setTimeout(s) ==
    [Log(s, "arm", <<>>, Absent) EXCEPT !.timers = @ \cup {FreshTimer(s)},
                                         !.renderTimeout = FreshTimer(s)]

\* dorender: the closure inside render(). The template walk and the DOM
\* transplant are summarised by shown, the model content the render used.
\* The "render" event carries the number of "updated" calls that preceded it.
dorender(s) ==
    IF ~s.bound THEN Throw(s, "TypeError")
    ELSE LET s1 == [Log(s, "render", <<>>, Num(s.updates))
                      EXCEPT !.el = TRUE, !.shown = ModelContent(s), !.updates = 0]
         IN IF s1.once THEN s1
            ELSE LET c == IF def.created = "none" THEN s1
                          ELSE [Log(s1, "create", <<>>, Absent)
                                  EXCEPT !.created = @ + 1]
                     h == IF def.created = "write" THEN RunHook(c) ELSE c
                 IN IF h.err # "" THEN h ELSE [h EXCEPT !.once = TRUE]

\* (mutant) render() without the debounce: every request renders inline.
renderInline(s) ==
    IF s.lock THEN s
    ELSE LET u == IF s.once /\ def.updated # "none"
                  THEN [Log(s, "update", <<>>, Absent) EXCEPT !.updates = @ + 1]
                  ELSE s
             h == IF s.once /\ def.updated = "write" THEN RunHook(u) ELSE u
         IN dorender([h EXCEPT !.err = ""])

\* (mutant) render() that leaves a pending timer alone and starts another.
renderNoCancel(s) ==
    IF s.lock THEN s
    ELSE LET u == IF s.once /\ def.updated # "none"
                  THEN [Log(s, "update", <<>>, Absent) EXCEPT !.updates = @ + 1]
                  ELSE s
             h == IF s.once /\ def.updated = "write" THEN RunHook(u) ELSE u
             s1 == [h EXCEPT !.err = ""]
         IN IF ~s1.once THEN dorender(s1) ELSE setTimeout(s1)

\* (mutant) render() that calls the update hook only when no render is
\* pending yet.
renderHookOnce(s) ==
    IF s.lock THEN s
    ELSE LET fire == s.once /\ def.updated # "none" /\ s.renderTimeout = 0
             u == IF fire
                  THEN [Log(s, "update", <<>>, Absent) EXCEPT !.updates = @ + 1]
                  ELSE s
             h == IF fire /\ def.updated = "write" THEN RunHook(u) ELSE u
             s1 == [h EXCEPT !.err = ""]
         IN IF ~s1.once THEN dorender(s1)
            ELSE setTimeout(IF s1.renderTimeout # 0
                            THEN clearTimeout(s1, s1.renderTimeout) ELSE s1)

\* render(): the lock test, the update hook (errors swallowed), then either
\* the synchronous first render or the cancel-and-restart of the timer.
render(s) ==
    IF s.lock THEN s
    ELSE LET u == IF s.once /\ def.updated # "none"
                  THEN [Log(s, "update", <<>>, Absent) EXCEPT !.updates = @ + 1]
                  ELSE s
             h == IF s.once /\ def.updated = "write" THEN RunHook(u) ELSE u
             s1 == [h EXCEPT !.err = ""]
         IN IF ~s1.once THEN dorender(s1)
            ELSE setTimeout(IF s1.renderTimeout # 0
                            THEN clearTimeout(s1, s1.renderTimeout) ELSE s1)

\* (mutant) setPath that calls the watch of the first segment for a path of
\* any length.
setPathWatchDeep(s, path, value) ==
    LET s0 == Log(s, "set", path, value)
        s1 == IF path[1] \in def.watch
              THEN Log(s0, "watch", path, value) ELSE s0
        obj == walkParent(s1, Ref(1), path, 1)
        key == path[Len(path)]
    IN IF obj.t = "absent" THEN Throw(s1, "Error")
       ELSE IF ~TypeofObject(value) /\ GetProp(s1, obj, key) = value THEN s1
       ELSE IF obj.t # "ref" THEN Throw(s1, "TypeError")
       ELSE render(SetField(s1, obj.v, key, value))

\* setPath: the watch callback, the walk, the primitive no-op test, the store
\* (a TypeError in strict mode when the parent is a primitive) and render().
setPath(s, path, value) ==
    LET s0 == Log(s, "set", path, value)
        s1 == IF Len(path) = 1 /\ path[1] \in def.watch
              THEN Log(s0, "watch", path, value) ELSE s0
        obj == walkParent(s1, Ref(1), path, 1)
        key == path[Len(path)]
    IN IF obj.t = "absent" THEN Throw(s1, "Error")
       ELSE IF ~TypeofObject(value) /\ GetProp(s1, obj, key) = value THEN s1
       ELSE IF obj.t # "ref" THEN Throw(s1, "TypeError")
       ELSE render(SetField(s1, obj.v, key, value))

\* deletePath: the same walk, delete, render().
deletePath(s, path) ==
    LET s0 == Log(s, "del", path, Absent)
        obj == walkParent(s0, Ref(1), path, 1)
        key == path[Len(path)]
    IN IF obj.t = "absent" THEN Throw(s0, "Error")
       ELSE IF obj.t # "ref" THEN render(s0)
       ELSE render(SetField(s0, obj.v, key, Absent))

\* ------------------------------------------------- NestProxy: the three traps
\* getProperty: the cached child handle, else the Handler's value; an object
\* value gets a child wrapper over this.target[prop] (created as {} when
\* falsy). new Proxy() throws a TypeError when that target is a primitive.
getProperty(s, w, prop) ==
    IF s.wr[w].sub[prop] # 0 THEN Return(s, Handle(s.wr[w].sub[prop]))
    ELSE LET handled == getPath(s, keypath(s, w, prop))
             tgt == s.wr[w].target
         IN IF LooseUndef(handled) THEN Return(s, handled)
            ELSE IF ~TypeofObject(handled) THEN Return(s, handled)
            ELSE IF handled.t = "elem" THEN Return(s, handled)
            ELSE LET s1 == IF ~Truthy(s.heap[tgt].f[prop])
                           THEN SetField(AllocEmpty(s), tgt, prop, Ref(Len(s.heap) + 1))
                           ELSE s
                     tv == s1.heap[tgt].f[prop]
                 IN IF tv.t # "ref" THEN Throw(s1, "TypeError")
                    ELSE LET s2 == NewWrapper(s1, tv.v, w, prop)
                         IN Return(SetSub(s2, w, prop, Len(s2.wr)),
                                   Handle(Len(s2.wr)))

\* (mutant) the loop without the ischild flag: every key goes to the Handler.
RECURSIVE fanoutViaHandler(_, _, _, _)
fanoutViaHandler(s, c, valueId, i) ==
    IF i > Len(PropSeq) \/ s.err # "" THEN s
    ELSE IF s.heap[valueId].f[PropSeq[i]].t = "absent"
         THEN fanoutViaHandler(s, c, valueId, i + 1)
    ELSE fanoutViaHandler(
             setProperty(s, c, PropSeq[i], s.heap[valueId].f[PropSeq[i]], FALSE),
             c, valueId, i + 1)

\* The loop "for (let k in value) subtree.dp.setProperty(obj, k, value[k],
\* null, true)" from the i-th key on; an exception ends it.
fanout(s, c, valueId, i) ==
    IF i > Len(PropSeq) \/ s.err # "" THEN s
    ELSE IF s.heap[valueId].f[PropSeq[i]].t = "absent" THEN fanout(s, c, valueId, i + 1)
    ELSE fanout(setProperty(s, c, PropSeq[i], s.heap[valueId].f[PropSeq[i]], TRUE),
                c, valueId, i + 1)

\* setProperty: classify the value; a scalar drops the cached child and goes
\* to the Handler (or, for a child of a whole-object write, straight into
\* the target); a plain object is copied key by key into the child wrapper's
\* target and then handed to the Handler as a whole, unless ischild.
setProperty(s, w, prop, value, ischild) ==
    LET isobj == value.t = "ref" /\ s.heap[value.v].kind = "obj"
        s0 == IF s.wr[w].sub[prop] # 0 /\ ~isobj THEN SetSub(s, w, prop, 0) ELSE s
        tgt == s.wr[w].target
    IN IF ~isobj
       THEN IF ischild THEN SetField(s0, tgt, prop, value)
            ELSE setPath(s0, keypath(s0, w, prop), value)
       ELSE LET s1 == IF ~Truthy(s0.heap[tgt].f[prop])
                      THEN SetField(AllocEmpty(s0), tgt, prop, Ref(Len(s0.heap) + 1))
                      ELSE s0
                tv == s1.heap[tgt].f[prop]
            IN IF s1.wr[w].sub[prop] = 0 /\ tv.t # "ref" THEN Throw(s1, "TypeError")
               ELSE LET s2 == IF s1.wr[w].sub[prop] = 0
                              THEN SetSub(NewWrapper(s1, tv.v, w, prop),
                                          w, prop, Len(s1.wr) + 1)
                              ELSE s1
                        s3 == fanout(s2, s2.wr[w].sub[prop], value.v, 1)
                    IN IF s3.err # "" THEN s3
                       ELSE IF ischild THEN s3
                       ELSE setPath(SetField(s3, tgt, prop, value),
                                    keypath(s3, w, prop), value)

\* deleteProperty: drop the cached child, then the Handler's deletePath.
deleteProperty(s, w, prop) ==
    deletePath(SetSub(s, w, prop, 0), keypath(s, w, prop))

\* lock() and unlock().
lockView(s) == [s EXCEPT !.lock = TRUE]

\* (mutant) unlock() that only clears the flag.
unlockNoRender(s) == [s EXCEPT !.lock = FALSE]

unlock(s) == IF s.lock THEN render([s EXCEPT !.lock = FALSE]) ELSE s

\* ------------------------------------------------------------ caller inputs
\* The values a caller writes: a root value and the fresh objects it is made
\* of (references between them are relative to the literal).
WriteVals ==
    << [root |-> Num(1), objs |-> <<>>],
       [root |-> Null, objs |-> <<>>],
       [root |-> Ref(1), objs |-> <<EmptyArr>>],
       [root |-> Ref(1), objs |-> <<[kind |-> "obj", f |-> [NoKeys EXCEPT !["p"] = Num(1)]]>>],
       [root |-> Ref(1), objs |-> <<[kind |-> "obj", f |-> [NoKeys EXCEPT !["p"] = Num(1), !["q"] = Ref(2)]],
                                    [kind |-> "obj", f |-> [NoKeys EXCEPT !["p"] = Num(1)]]>>] >>

Shift(x, off) == IF x.t = "ref" THEN Ref(x.v + off) ELSE x
ShiftObj(o, off) == [o EXCEPT !.f = [k \in Props |-> Shift(o.f[k], off)]]

\* The caller evaluates the literal: its objects are allocated on the heap.
Alloc(s, lit) ==
    [s EXCEPT !.heap = @ \o [i \in 1..Len(lit.objs) |-> ShiftObj(lit.objs[i], Len(s.heap))]]
AllocVal(s, lit) == Shift(lit.root, Len(s.heap))

\* The content of a literal, as Flat gives it for a stored value.
LitFlat(lit) == Flat([heap |-> lit.objs], lit.root, <<>>)

\* The value stored in $data at a path, read without the wrapper.
RawAt(s, path) == getWalk(s, Ref(1), path, 1)

\* ------------------------------------------------------------------ actions
Apply(s) ==
    /\ heap' = s.heap /\ wr' = s.wr /\ lock' = s.lock /\ once' = s.once
    /\ renderTimeout' = s.renderTimeout /\ timers' = s.timers
    /\ bound' = s.bound /\ el' = s.el /\ shown' = s.shown
    /\ created' = s.created /\ updates' = s.updates
    /\ log' = s.log /\ err' = s.err
    /\ dirty' = IF s.lock /\ lock
                THEN dirty \/ ModelContent(s) # ModelContent(State)
                ELSE FALSE
    /\ UNCHANGED <<dom, call>>

\* The units modelled: without hooks, with hooks that touch nothing, and
\* with hooks that write to the model (see RunHook).
HookKinds == {"none", "noop", "write"}

Op(name, w, prop, vi, val) ==
    [op |-> name, w |-> w, prop |-> prop, vi |-> vi, val |-> val]

\* new Vidi.View(id, def): $data is the cloned model {p: {p: 0, q: 1}, q: 0},
\* the root wrapper is published as view, init() waits for the load event.
ViewInit ==
    /\ heap = << [kind |-> "obj", f |-> [NoKeys EXCEPT !["p"] = Ref(2), !["q"] = Num(0)]],
                 [kind |-> "obj", f |-> [NoKeys EXCEPT !["p"] = Num(0), !["q"] = Num(1)]] >>
    /\ wr = << [target |-> 1, parent |-> 0, key |-> "", sub |-> [k \in Props |-> 0]] >>
    /\ held = {1}
    /\ lock = FALSE /\ once = FALSE /\ bound = FALSE /\ el = FALSE
    /\ renderTimeout = 0 /\ timers = {}
    /\ shown = {}
    /\ created = 0 /\ updates = 0 /\ dirty = FALSE
    /\ log = <<>> /\ err = ""
    /\ ops = 0
    /\ lastOp = Op("new", 0, "", 0, Absent)
    /\ def \in {[updated |-> k, created |-> k, watch |-> {"q"}] : k \in HookKinds}

\* Nothing rendered through a template yet, no function applied.
NoDom == [tpl |-> 0]
NoCall == [fn |-> "none"]

Init == ViewInit /\ dom = NoDom /\ call = NoCall

\* init(id): binds the template and renders.
InitBind ==
    /\ ~bound
    /\ Apply(render([State EXCEPT !.bound = TRUE]))
    /\ lastOp' = Op("init", 0, "", 0, Absent)
    /\ UNCHANGED <<held, ops, def>>

\* handle[prop] = value, for a fresh literal value.
Write(w, prop, vi) ==
    /\ ops < MaxOps
    /\ LET s0 == Alloc(State, WriteVals[vi])
           val == AllocVal(State, WriteVals[vi])
       IN /\ Apply(setProperty(s0, w, prop, val, FALSE))
          /\ lastOp' = Op("write", w, prop, vi, val)
    /\ ops' = ops + 1
    /\ UNCHANGED <<held, def>>

\* handle[prop] = x, where x is the very value $data already holds there and
\* setProperty classifies x as a scalar.
Rewrite(w, prop) ==
    /\ ops < MaxOps
    /\ LET val == RawAt(State, keypath(State, w, prop))
       IN /\ val.t \in {"num", "null"} \/ (val.t = "ref" /\ heap[val.v].kind = "arr")
          /\ Apply(setProperty(State, w, prop, val, FALSE))
          /\ lastOp' = Op("rewrite", w, prop, 0, val)
    /\ ops' = ops + 1
    /\ UNCHANGED <<held, def>>

\* delete handle[prop].
Erase(w, prop) ==
    /\ ops < MaxOps
    /\ Apply(deleteProperty(State, w, prop))
    /\ lastOp' = Op("erase", w, prop, 0, Absent)
    /\ ops' = ops + 1
    /\ UNCHANGED <<held, def>>

\* handle[prop]: a returned child handle is kept by the caller.
Read(w, prop) ==
    /\ ops < MaxOps
    /\ LET r == getProperty(State, w, prop)
       IN /\ Apply(r)
          /\ held' = IF r.err = "" /\ r.ret.t = "handle" THEN held \cup {r.ret.v} ELSE held
    /\ lastOp' = Op("read", w, prop, 0, Absent)
    /\ ops' = ops + 1
    /\ UNCHANGED def

Lock ==
    /\ ops < MaxOps
    /\ Apply(lockView(State))
    /\ lastOp' = Op("lock", 0, "", 0, Absent)
    /\ ops' = ops + 1
    /\ UNCHANGED <<held, def>>

Unlock ==
    /\ ops < MaxOps
    /\ Apply(unlock(State))
    /\ lastOp' = Op("unlock", 0, "", IF ~lock THEN 0 ELSE IF dirty THEN 2 ELSE 1, Absent)
    /\ ops' = ops + 1
    /\ UNCHANGED <<held, def>>

\* The callback of pending timer id runs: clearTimeout(self.renderTimeout),
\* delete self.renderTimeout, dorender().
TimerFire(id) ==
    /\ Apply(dorender([State EXCEPT !.timers = (@ \ {id}) \ {renderTimeout},
                                    !.renderTimeout = 0]))
    /\ lastOp' = Op("timer", 0, "", 0, Absent)
    /\ UNCHANGED <<held, ops, def>>

Next ==
    \/ InitBind
    \/ \E w \in held, prop \in Props, vi \in 1..Len(WriteVals) : Write(w, prop, vi)
    \/ \E w \in held, prop \in Props : Rewrite(w, prop)
    \/ \E w \in held, prop \in Props : Erase(w, prop)
    \/ \E w \in held, prop \in Props : Read(w, prop)
    \/ Lock
    \/ Unlock
    \/ \E id \in timers : TimerFire(id)

Spec == Init /\ [][Next]_vars

\* The unit whose hooks write to the model, driven through its root handle;
\* the browser eventually runs a timer that stays pending.
HookInit == Init /\ def.updated = "write"

\* The caller writes a number or a plain object (indices into WriteVals).
HookWriteVals ==
    {i \in 1..Len(WriteVals) :
        \/ WriteVals[i].root = Num(1)
        \/ (Len(WriteVals[i].objs) = 1 /\ WriteVals[i].objs[1].kind = "obj")}

HookNext ==
    \/ InitBind
    \/ \E prop \in Props, vi \in HookWriteVals : Write(1, prop, vi)
    \/ \E prop \in Props : Erase(1, prop)
    \/ Lock
    \/ Unlock
    \/ \E id \in timers : TimerFire(id)

FairSpec == HookInit /\ [][HookNext]_vars /\ WF_vars(\E id \in timers : TimerFire(id))

\* --------------------------------------------------------- reading the log
Has(e) == \E i \in DOMAIN log : log[i].e = e
Count(e) == Cardinality({i \in DOMAIN log : log[i].e = e})
Mutating == lastOp.op \in {"write", "rewrite", "erase"}
OpPath == keypath(State, lastOp.w, lastOp.prop)

\* What a caller sees when it reads handle[prop]: a scalar, or for a handle
\* the keys its Proxy enumerates (the own keys of the Proxy's target) and,
\* under each, what reading that key gives in turn.
RECURSIVE Observe(_, _, _, _)
Observe(s, w, prop, prefix) ==
    LET r == getProperty(s, w, prop)
    IN IF r.err # "" THEN {<<prefix, [t |-> "throw", v |-> 0]>>}
       ELSE IF r.ret.t # "handle" THEN {<<prefix, r.ret>>}
       ELSE LET c == r.ret.v
                tgt == r.wr[c].target
            IN {<<prefix, [t |-> r.heap[tgt].kind, v |-> 0]>>} \cup
               UNION {Observe(r, c, k, Append(prefix, k)) : k \in KeysOf(r, tgt)}

\* ------------------------------------------------------------------ claims
\* C1 (as stated): after a write of V at handle[prop] that returns normally,
\* reading handle[prop] gives V: for a plain object exactly V's keys and
\* values.
WriteVisibility ==
    (lastOp.op = "write" /\ err = "") =>
        Observe(State, lastOp.w, lastOp.prop, <<>>) = LitFlat(WriteVals[lastOp.vi])

\* C2 (as stated): writing a scalar (as setProperty classifies it) that is
\* the value already stored at the path requests no render: no timer is
\* started or restarted and no render executes.
NoOpSuppression ==
    lastOp.op = "rewrite" => ~Has("arm") /\ ~Has("cancel") /\ ~Has("render")

\* The Handler writes the caller's own call made, as opposed to those a hook
\* made during the same step.
CallerSets ==
    {i \in DOMAIN log : /\ log[i].e = "set"
                        /\ \A j \in 1..(i - 1) : log[j].e \notin {"update", "create"}}
SetsAt(path) == {i \in CallerSets : log[i].path = path}
PlainWrite == lastOp.op = "write" /\ lastOp.val.t = "ref" /\ heap[lastOp.val.v].kind = "obj"

\* C3 (as stated): a write of a plain object V at P invokes the Handler's
\* write once for every own key k of V with the path P+k, and once for P.
FanOutThroughHandler ==
    (PlainWrite /\ err = "") =>
        /\ \A k \in KeysOf(State, lastOp.val.v) : Cardinality(SetsAt(Append(OpPath, k))) = 1
        /\ Cardinality(SetsAt(OpPath)) = 1

\* C3 (amended): a write of a plain object V at P invokes the Handler's write
\* for P itself only, with the whole value: exactly once when the write
\* returns normally, at most once when it throws, and for no path P+k.
HandlerWriteOnce ==
    PlainWrite =>
        /\ \A i \in CallerSets : log[i].path = OpPath /\ log[i].val = lastOp.val
        /\ Cardinality(CallerSets) <= 1
        /\ err = "" => Cardinality(CallerSets) = 1

\* C3 witness: a plain object with own keys was written at a nested path
\* (obj.sub = {...}) and the write returned.
HandlerWriteOnceWitness ==
    /\ PlainWrite /\ err = ""
    /\ Len(OpPath) = 2
    /\ KeysOf(State, lastOp.val.v) = Props

\* C4: after the first render at most one deferred render is pending and
\* self.renderTimeout names it; a model-changing write or erase on an
\* unlocked unit renders nothing inline, cancels the pending timer and leaves
\* exactly one freshly started timer; the timer's callback executes exactly
\* one render and leaves nothing pending.
CoalescingStep ==
    /\ Cardinality(timers') <= 1
    /\ timers' = (IF renderTimeout' = 0 THEN {} ELSE {renderTimeout'})
    /\ (/\ once /\ ~lock /\ Mutating' /\ err' = ""
        /\ ModelContent(State') # ModelContent(State))
       => /\ ~Has("render")'
          /\ Cardinality(timers') = 1
          /\ timers # {} => Has("cancel")'
          /\ log'[Len(log')].e = "arm"
    /\ lastOp'.op = "timer" => Count("render")' = 1 /\ timers' = {}

Coalescing == [][CoalescingStep]_vars

\* C4 witness: a second mutation arrived while a render was pending and
\* replaced the timer.
CoalescingWitness ==
    /\ lastOp.op = "write" /\ err = ""
    /\ log[Len(log)].e = "arm" /\ Has("cancel") /\ ~Has("update")
    /\ Cardinality(timers) = 1

\* C5 (as stated): while the unit is locked no render executes and no timer
\* is started.
NoRenderWhileLocked == lock => ~Has("render") /\ ~Has("arm")

\* C6 (as stated): unlock() requests a render exactly when the unit was
\* locked and a mutation occurred while it was; otherwise it does nothing.
UnlockRendersIffDirty ==
    lastOp.op = "unlock" =>
        IF lastOp.vi = 2 THEN Has("arm") \/ Has("render")
        ELSE ~Has("arm") /\ ~Has("render")

\* C6 (amended): unlock() on a locked unit clears the lock and requests a
\* render whether or not a mutation occurred: after the first render the
\* timer is (re)started and exactly one render is pending; before it, a bound
\* unit renders synchronously and an unbound one throws. unlock() on an
\* unlocked unit does nothing.
UnlockAlwaysRenders ==
    lastOp.op = "unlock" =>
        IF lastOp.vi = 0 THEN log = <<>> /\ err = "" /\ ~lock
        ELSE /\ ~lock
             /\ IF ~bound THEN err = "TypeError" /\ log = <<>>
                ELSE IF Has("render") THEN once /\ err = ""
                ELSE /\ Has("arm") /\ log[Len(log)].e = "arm"
                     /\ Cardinality(timers) = 1 /\ err = ""

\* C6 witness: unlock() of a unit that was locked with no mutation in between
\* started the timer.
UnlockAlwaysRendersWitness ==
    lastOp.op = "unlock" /\ lastOp.vi = 1 /\ Has("arm")

\* C7 (as stated): the creation hook has fired exactly once as soon as the
\* first render is done, and never before or again.
CreatedOnce ==
    def.created # "none" => created = (IF once THEN 1 ELSE 0)

\* C8 (as stated): the update hook never fires before the first render and
\* exactly once before each render executed after the first.
UpdateOncePerRender ==
    def.updated # "none" =>
        /\ ~once => updates = 0 /\ ~Has("update")
        /\ lastOp.op = "timer" =>
               \A i \in DOMAIN log : log[i].e = "render" => log[i].val = Num(1)

\* C8 (amended): the update hook never fires before the first render; after
\* it the hook fires once for every render request, right before the timer is
\* (re)started, and never in the step that executes a render.
UpdatePerRequest ==
    /\ Count("update") = (IF def.updated = "none" THEN 0 ELSE Count("arm"))
    /\ ~once => updates = 0
    /\ Has("render") => ~Has("update")

\* C8 witness: a deferred render executed after two or more hook calls.
UpdatePerRequestWitness ==
    /\ lastOp.op = "timer"
    /\ \E i \in DOMAIN log : log[i].e = "render" /\ log[i].val.v >= 2

\* The Handler writes made from inside the update hook during the last step.
HookWrites ==
    {i \in DOMAIN log : /\ log[i].e = "set"
                        /\ \E j \in 1..(i - 1) : log[j].e = "update"}

\* C9: a write made inside the update hook runs no render in that step and
\* leaves exactly one timer pending; a deferred render then executes, and a
\* deferred render shows the model as it is when it runs.
HookWriteDeferred ==
    /\ [](HookWrites # {} => ~Has("render") /\ Cardinality(timers) = 1)
    /\ [](lastOp.op = "timer" => shown = ModelContent(State))
    /\ (HookWrites # {}) ~> (lastOp.op = "timer" /\ Has("render"))

\* C9 witness: the hook's write changed the model (the hook ran again for the
\* render request of its own write).
HookWriteDeferredWitness ==
    /\ HookWrites # {} /\ Count("update") >= 2
    /\ GetProp(State, Ref(1), HookProp) = HookVal

\* The value at a path, walking objects only.
RECURSIVE StrictAt(_, _, _, _)
StrictAt(s, obj, path, i) ==
    IF i > Len(path) THEN obj ELSE StrictAt(s, GetProp(s, obj, path[i]), path, i + 1)

MissingIntermediate(s, path) ==
    \E n \in 1..(Len(path) - 1) : LooseUndef(StrictAt(s, Ref(1), SubSeq(path, 1, n), 1))

\* C10: a write or erase whose path has a missing intermediate segment throws
\* to the caller, leaves the model as it was and requests no render.
InvalidPathStep ==
    (Mutating' /\ MissingIntermediate(State, OpPath'))
    => /\ err' # ""
       /\ ModelContent(State') = ModelContent(State)
       /\ ~Has("render")' /\ ~Has("arm")'
       /\ timers' = timers /\ renderTimeout' = renderTimeout

InvalidPathFails == [][InvalidPathStep]_vars

\* C10 witness: a write through a handle whose path is gone
\* has thrown.
InvalidPathFailsWitness ==
    /\ lastOp.op = "write" /\ err = "Error"
    /\ Len(OpPath) = 2 /\ LooseUndef(GetProp(State, Ref(1), OpPath[1]))

\* The watch callback invocations of the last step, and those made for the
\* caller's own write.
WatchCalls == {i \in DOMAIN log : log[i].e = "watch"}
CallerWatchCalls ==
    {i \in WatchCalls : \A j \in 1..(i - 1) : log[j].e \notin {"update", "create"}}
WatchedWrite ==
    /\ lastOp.op \in {"write", "rewrite"}
    /\ Len(OpPath) = 1 /\ OpPath[1] \in def.watch

\* C19: a write (scalar or whole object) that returns normally and whose path
\* is exactly [k] for a watched key k calls the watch of k once, in the same
\* step, with the written value; a write to a deeper path or to another key,
\* an erase, a read, lock or unlock calls no watch for the caller; and every
\* watch call made in a step, also one made for a hook's write, directly
\* follows a Handler write of exactly [k] and carries its value.
WatchOnExactKey ==
    /\ (WatchedWrite /\ err = "") =>
           /\ Cardinality(CallerWatchCalls) = 1
           /\ \A i \in CallerWatchCalls : log[i].path = OpPath /\ log[i].val = lastOp.val
    /\ ~WatchedWrite => CallerWatchCalls = {}
    /\ \A i \in WatchCalls :
           /\ i > 1 /\ log[i - 1].e = "set"
           /\ log[i - 1].path = log[i].path /\ log[i - 1].val = log[i].val
           /\ Len(log[i].path) = 1 /\ log[i].path[1] \in def.watch
    /\ \A i \in DOMAIN log :
           (log[i].e = "set" /\ Len(log[i].path) = 1 /\ log[i].path[1] \in def.watch)
           => (i + 1) \in WatchCalls

\* C19 witness: a whole object was written at the watched key and the watch
\* was called with it.
WatchOnExactKeyWitness ==
    /\ WatchedWrite /\ PlainWrite /\ err = ""
    /\ CallerWatchCalls # {}

\* ------------------------------------------------- the VidiView constructor
\* Names are sequences of characters. IdentChars stands for the characters of
\* [a-zA-Z0-9_]; "-" and "$" are outside it.
IdentChars == {"a", "b", "1", "_"}
MatchIdent(name) == Len(name) >= 1 /\ \A i \in 1..Len(name) : name[i] \in IdentChars

\* The entries of an object literal in enumeration order: distinct keys.
MaxKeys == 2
KeyNames == {<<"a">>, <<"b", "1">>, <<"a", "-">>, <<>>}
Entries(vals, n) ==
    {e \in UNION {[1..k -> [key : KeyNames, val : vals]] : k \in 0..n} :
        \A i, j \in DOMAIN e : i # j => e[i].key # e[j].key}
ValueAt(entries, name) ==
    IF \E i \in DOMAIN entries : entries[i].key = name
    THEN (CHOOSE x \in {entries[i] : i \in DOMAIN entries} : x.key = name).val
    ELSE Absent
Func == [t |-> "func", v |-> 0]

\* The constructor's loop over def.methods from the i-th entry on: the name
\* test, the clash test against the model, the typeof test, then the method
\* is added to the model.
RECURSIVE addMethods(_, _, _)
addMethods(r, methods, i) ==
    IF i > Len(methods) THEN r
    ELSE LET m == methods[i]
         IN IF ~MatchIdent(m.key)
            THEN [r EXCEPT !.err = "Invalid model", !.diag = @ + 1]
            ELSE IF ValueAt(r.model, m.key).t # "absent"
            THEN [r EXCEPT !.err = "Invalid method", !.diag = @ + 1]
            ELSE IF m.val.t # "func"
            THEN [r EXCEPT !.err = "Invalid method", !.diag = @ + 1]
            ELSE addMethods(
                     [r EXCEPT !.model =
                          IF \E j \in DOMAIN @ : @[j].key = m.key
                          THEN [j \in DOMAIN @ |-> IF @[j].key = m.key
                                                  THEN [key |-> m.key, val |-> m.val]
                                                  ELSE @[j]]
                          ELSE Append(@, [key |-> m.key, val |-> m.val])],
                     methods, i + 1)

\* new Vidi.View(id, def): the two validation loops, then the unit is
\* registered in Vidi.views and its wrapper published; init() runs at once
\* when the document is complete and throws when the template is missing.
construct(d) ==
    LET r0 == [err |-> "", diag |-> 0, model |-> d.model, registered |-> FALSE,
               published |-> FALSE, rendered |-> FALSE]
    IN IF \E i \in DOMAIN d.model : ~MatchIdent(d.model[i].key)
       THEN [r0 EXCEPT !.err = "Invalid model", !.diag = 1]
       ELSE LET r1 == addMethods(r0, d.methods, 1)
            IN IF r1.err # "" THEN r1
               ELSE LET r2 == [r1 EXCEPT !.registered = TRUE, !.published = TRUE]
                    IN IF ~d.ready THEN r2
                       ELSE IF ~d.template THEN [r2 EXCEPT !.err = "Could not bind"]
                       ELSE [r2 EXCEPT !.rendered = TRUE]

CtorInputs ==
    {[fn |-> "new", done |-> FALSE,
      arg |-> [model |-> m, methods |-> f, ready |-> rd, template |-> tp]] :
        m \in Entries({Num(0), Absent}, MaxKeys),
        f \in Entries({Func, Num(0)}, 1),
        rd \in BOOLEAN, tp \in BOOLEAN}

Construct ==
    /\ call.fn = "new" /\ ~call.done
    /\ call' = [call EXCEPT !.done = TRUE] @@ [res |-> construct(call.arg)]
    /\ UNCHANGED <<heap, wr, held, lock, once, renderTimeout, timers, bound, el,
                   shown, created, updates, dirty, log, err, ops, lastOp, def, dom>>

\* The variables of the view stay as constructed while a function is applied.
ViewIdle == ViewInit /\ def.updated = "none" /\ dom = NoDom

\* C17 (as stated): a model with a top-level key that is not an identifier,
\* or a method named like a key of the model, makes the constructor throw,
\* and then the unit is not registered, no wrapper is published and nothing
\* is rendered.
InvalidDeclarationRejected ==
    (/\ call.fn = "new" /\ call.done
     /\ \/ \E i \in DOMAIN call.arg.model : ~MatchIdent(call.arg.model[i].key)
        \/ \E i \in DOMAIN call.arg.model, j \in DOMAIN call.arg.methods :
               call.arg.model[i].key = call.arg.methods[j].key)
    => /\ call.res.err # ""
       /\ ~call.res.registered /\ ~call.res.published /\ ~call.res.rendered

\* ------------------------------------------------------------ VidiView.eval
\* An expression is an identifier alone ("ident"), a property of one
\* ("member": id.p), or a text that does not parse ("malformed": id +).
ExprKinds == {"ident", "member", "malformed"}
Idents == {"q", "p", "item", "nope", "src", "toString", "Math"}

\* What the host gives a name without the model: the members every object
\* inherits, the variables of eval(e,tempvars,noreturn) itself and of the
\* function it generates, which the direct eval closes over, and the globals.
ProtoKeys == {"toString"}
EvalScope == {"self", "e", "tempvars", "noreturn", "src",
              "__self", "__data", "__locals"}
Globals == {"Math"}
Str == [t |-> "str", v |-> 0]
Host == [t |-> "host", v |-> 0]

\* tempvars[name] and self.$data[name].
LocalAt(locals, name) ==
    IF name \in DOMAIN locals THEN locals[name]
    ELSE IF name \in ProtoKeys THEN Func ELSE Absent
DataAt(s, name) ==
    IF name \in Props THEN s.heap[1].f[name]
    ELSE IF name \in ProtoKeys THEN Func ELSE Absent

\* The generated function declares a var for every model key and local whose
\* name occurs in the text; any other name is looked up in the enclosing
\* scopes. The result is the value, or "ReferenceError".
Resolve(s, locals, name) ==
    IF name \in DOMAIN locals THEN [ok |-> TRUE, val |-> locals[name]]
    ELSE IF name \in Props THEN [ok |-> TRUE, val |-> s.heap[1].f[name]]
    ELSE IF name \in EvalScope THEN [ok |-> TRUE, val |-> Str]
    ELSE IF name \in Globals THEN [ok |-> TRUE, val |-> Host]
    ELSE [ok |-> FALSE, val |-> Absent]

EvalResult(ret, warns) == [ret |-> ret, warns |-> warns, raised |-> FALSE]

\* eval(e, tempvars, noreturn): the two direct lookups by the whole text, then
\* the generated function run inside try; a ReferenceError warns once, any
\* other exception three times, and both return null.
evalExpr(s, e, locals, noreturn) ==
    LET whole == IF e.kind = "ident" THEN e.id ELSE ""
        r == Resolve(s, locals, e.id)
    IN IF whole # "" /\ LocalAt(locals, whole).t # "absent"
       THEN EvalResult(LocalAt(locals, whole), 0)
       ELSE IF whole # "" /\ DataAt(s, whole).t # "absent"
       THEN EvalResult(DataAt(s, whole), 0)
       ELSE IF e.kind = "malformed" THEN EvalResult(Null, 3)
       ELSE IF ~r.ok THEN EvalResult(Null, 1)
       ELSE IF e.kind = "member" /\ LooseUndef(r.val) THEN EvalResult(Null, 3)
       ELSE IF noreturn THEN EvalResult(Absent, 0)
       ELSE IF e.kind = "member" THEN EvalResult(GetProp(s, r.val, "p"), 0)
       ELSE EvalResult(r.val, 0)

EvalLocals == {<<>>, [item |-> Num(1)], [item |-> Null]}

EvalInputs ==
    {[fn |-> "eval", done |-> FALSE,
      arg |-> [e |-> [kind |-> k, id |-> id], locals |-> l, noreturn |-> nr]] :
        k \in ExprKinds, id \in Idents, l \in EvalLocals, nr \in BOOLEAN}

Evaluate ==
    /\ call.fn = "eval" /\ ~call.done
    /\ call' = [call EXCEPT !.done = TRUE]
               @@ [res |-> evalExpr(State, call.arg.e, call.arg.locals, call.arg.noreturn)]
    /\ UNCHANGED <<heap, wr, held, lock, once, renderTimeout, timers, bound, el,
                   shown, created, updates, dirty, log, err, ops, lastOp, def, dom>>

\* C18 (as stated): evaluating an expression whose identifier is neither a
\* local nor a model key, or one that is malformed, raises nothing, emits at
\* least one diagnostic and returns null.
EvalInert ==
    (/\ call.fn = "eval" /\ call.done
     /\ \/ call.arg.e.kind = "malformed"
        \/ (call.arg.e.id \notin DOMAIN call.arg.locals /\ call.arg.e.id \notin Props))
    => /\ ~call.res.raised
       /\ call.res.warns >= 1
       /\ call.res.ret = Null


\* ------------------------------------------------- two-way binding (v-model)
\* ToNumber, as the set holding the number (empty for NaN).
NumOf(x) ==
    IF x.t \in {"num", "bool"} THEN {x.v}
    ELSE IF x = TextOf("") THEN {0}
    ELSE IF x = TextOf("1") THEN {1}
    ELSE {}

\* a == b: same type by identity, null and undefined only each other, a
\* plain object against a primitive never, the rest as numbers.
LooseEq(a, b) ==
    IF a.t = b.t THEN a = b
    ELSE IF LooseUndef(a) \/ LooseUndef(b) THEN LooseUndef(a) /\ LooseUndef(b)
    ELSE IF a.t \in {"ref", "handle"} \/ b.t \in {"ref", "handle"} THEN FALSE
    ELSE NumOf(a) \cap NumOf(b) # {}

\* (mutant) a === b.
StrictEq(a, b) == a = b

\* The local scope object (tempvars) as the start of a lookup.
Scope == [t |-> "scope", v |-> 0]

\* crsr[key] for the scope object, the view or a wrapper handle, and for
\* the values met on the way.
Index(s, crsr, key) ==
    IF crsr.t = "scope" THEN Return(s, LocalAt(s.tv, key))
    ELSE IF LooseUndef(crsr) THEN Throw(s, "TypeError")
    ELSE IF key \notin Props THEN Return(s, Absent)
    ELSE IF crsr.t = "handle" THEN getProperty(s, crsr.v, key)
    ELSE IF crsr.t = "ref" THEN Return(s, GetProp(s, crsr, key))
    ELSE Return(s, Absent)

\* get (obj, index) inside getChild: one lookup without a dot, else the walk
\* that stops at the first falsy value.
RECURSIVE getLoop(_, _, _, _)
RECURSIVE getNext(_, _, _)
getNext(r, keys, i) ==
    IF r.err # "" THEN r
    ELSE IF ~Truthy(r.ret) THEN r
    ELSE getLoop(r, r.ret, keys, i + 1)
getLoop(s, crsr, keys, i) ==
    IF i > Len(keys) THEN Return(s, crsr)
    ELSE getNext(Index(s, crsr, keys[i]), keys, i)

get(s, obj, keys) ==
    IF Len(keys) = 1 THEN Index(s, obj, keys[1]) ELSE getLoop(s, obj, keys, 1)

\* if (res === undefined) return get (self.view, index).
getFromView(res, keys) ==
    IF res.err = "" /\ res.ret.t = "absent" THEN get(res, Handle(1), keys)
    ELSE res

getChild(s, keys) == getFromView(get(s, Scope, keys), keys)

\* crsr[key] = value at the end of setChild: on the scope object, through a
\* wrapper, or on an object of $data that a local refers to directly.
Assign(s, crsr, key, value) ==
    IF crsr.t = "scope"
    THEN Log([s EXCEPT !.tv = [k \in DOMAIN s.tv \cup {key} |-> IF k = key THEN value ELSE s.tv[k]]],
             "local", <<key>>, value)
    ELSE IF crsr.t = "handle" THEN setProperty(s, crsr.v, key, value, FALSE)
    ELSE IF crsr.t = "ref" THEN Log(SetField(s, crsr.v, key, value), "store", <<key>>, value)
    ELSE Throw(s, "TypeError")

RECURSIVE setLoop(_, _, _, _, _)
RECURSIVE setNext(_, _, _, _)
setNext(r, keys, i, value) ==
    IF r.err # "" THEN r
    ELSE IF r.ret.t = "absent" THEN Log(r, "warn", keys, Absent)
    ELSE setLoop(r, r.ret, keys, i + 1, value)
setLoop(s, crsr, keys, i, value) ==
    IF i > Len(keys) - 1 THEN Assign(s, crsr, keys[Len(keys)], value)
    ELSE setNext(Index(s, crsr, keys[i]), keys, i, value)

setChild(s, keys, value) ==
    IF Len(keys) = 1
    THEN IF LocalAt(s.tv, keys[1]).t = "absent"
         THEN setProperty(s, 1, keys[1], value, FALSE)
         ELSE Assign(s, Scope, keys[1], value)
    ELSE setLoop(s, IF LocalAt(s.tv, keys[1]).t = "absent" THEN Handle(1) ELSE Scope,
                 keys, 1, value)

\* The control: its type, its value and its checked state when the event
\* fires.
InputTypes == {"text", "checkbox", "radio"}

NewVal(ctl, curval) ==
    IF ctl.type = "checkbox" THEN Bool(LooseEq(ctl.value, TextOf("on")))
    ELSE IF ctl.type = "radio" THEN (IF ctl.checked THEN ctl.value ELSE curval)
    ELSE ctl.value

\* if (newval != curval) self.setChild(tempvars, model, newval), for the
\* state g after the lookup of curval.
writeBack(g, keys, newval, same) ==
    IF g.err # "" THEN g
    ELSE IF ~same THEN setChild([g EXCEPT !.cur = g.ret, !.newval = newval], keys, newval)
    ELSE [g EXCEPT !.cur = g.ret, !.newval = newval]

\* (mutant) the listener with the strict comparison.
listenerStrict(g, keys, ctl) ==
    writeBack(g, keys, NewVal(ctl, g.ret), StrictEq(NewVal(ctl, g.ret), g.ret))

\* The listener v-model installs on the clone, after its first line
\* (let curval = self.getChild(tempvars, model)) gave the state g.
listener(g, keys, ctl) ==
    writeBack(g, keys, NewVal(ctl, g.ret), LooseEq(NewVal(ctl, g.ret), g.ret))

\* The bound paths (the v-model attribute split at its dots), the local
\* scopes of the clone and the controls.
ModelPaths == {<<"q">>, <<"p", "q">>, <<"q", "p">>}
InputLocals == {<<>>, [q |-> Num(0)]}

\* The scope of a clone of <... v-for="q in KEY"> for a top-level key KEY that
\* holds a collection: eval("KEY") returns self.$data[KEY] itself, and the
\* loop binds the loop variable to each of its entries (those that are
\* objects are taken here).
LoopVar == "q"
LoopLocals(s) ==
    {[x \in {LoopVar} |-> s.heap[s.heap[1].f[key].v].f[k]] :
        key \in {c \in Props : s.heap[1].f[c].t = "ref"}, k \in Props}
    \ {[x \in {LoopVar} |-> v] : v \in {Absent, Null} \cup {Num(n) : n \in 0..1}
                                        \cup {Text(i) : i \in DOMAIN TextTable}
                                        \cup {Bool(b) : b \in BOOLEAN}}

Controls ==
    {[type |-> "text", value |-> Text(i), checked |-> FALSE] : i \in 1..4}
    \cup {[type |-> "checkbox", value |-> TextOf(x), checked |-> TRUE] : x \in {"on", "1"}}
    \cup {[type |-> "radio", value |-> TextOf("abc"), checked |-> c] : c \in BOOLEAN}

\* The object the last key of the bound path is assigned on: the scope
\* object, or what the model holds above the path.
ParentOf(s, locals, keys) ==
    IF LocalAt(locals, keys[1]).t # "absent"
    THEN (IF Len(keys) = 1 THEN Scope ELSE LocalAt(locals, keys[1]))
    ELSE RawAt(s, SubSeq(keys, 1, Len(keys) - 1))

\* The input (or change) event of a rendered control; r is the state
\* after the listener.
Fired(r, keys, locals, ctl) ==
    /\ Apply(r)
    /\ lastOp' = [op |-> "input", w |-> 0, prop |-> "", vi |-> 0,
                  val |-> ctl.value, type |-> ctl.type, path |-> keys,
                  parent |-> ParentOf(State, locals, keys),
                  cur |-> r.cur, newval |-> r.newval, tv |-> r.tv]

Input(keys, locals, ctl) ==
    /\ once /\ el /\ ops < MaxOps
    /\ Fired(listener(getChild(State @@ [tv |-> locals, cur |-> Absent, newval |-> Absent],
                                keys),
                       keys, ctl),
             keys, locals, ctl)
    /\ ops' = ops + 1
    /\ UNCHANGED <<held, def>>

\* The unit without hooks; the caller sets a number or null, or at q a
\* collection with an object entry, and erases through the root handle until
\* a control fires.
NestedVal == CHOOSE i \in DOMAIN WriteVals : Len(WriteVals[i].objs) = 2
InputInit == ViewIdle /\ call = NoCall

InputNext ==
    \/ InitBind
    \/ \E prop \in Props, vi \in 1..2 : lastOp.op # "input" /\ Write(1, prop, vi)
    \/ \E prop \in Props : lastOp.op # "input" /\ Erase(1, prop)
    \/ lastOp.op # "input" /\ Write(1, "q", NestedVal)
    \/ \E keys \in ModelPaths, locals \in InputLocals \cup LoopLocals(State),
          ctl \in Controls :
           Input(keys, locals, ctl)
    \/ \E id \in timers : TimerFire(id)

InputSpec == InputInit /\ [][InputNext]_vars

LocalWrites == {i \in DOMAIN log : log[i].e = "local"}
DirectStores == {i \in DOMAIN log : log[i].e = "store"}
InputWrites == CallerSets \cup LocalWrites \cup DirectStores

Digits == <<"0", "1", "2", "3", "4", "5", "6", "7", "8", "9">>
HexDigits == Digits \o <<"a", "b", "c", "d", "e", "f">>
CharCodes ==
    [c \in {"A", "B", "a", "(", ")", "/", "{", "}", "[", "]", ",", ":", "'",
            "i", "t", "e", "m"} |->
        CASE c = "A" -> 65 [] c = "B" -> 66 [] c = "a" -> 97
          [] c = "(" -> 40 [] c = ")" -> 41 [] c = "/" -> 47
          [] c = "{" -> 123 [] c = "}" -> 125 [] c = "[" -> 91 [] c = "]" -> 93
          [] c = "," -> 44 [] c = ":" -> 58 [] c = "'" -> 34
          [] c = "i" -> 105 [] c = "t" -> 116 [] c = "e" -> 101 [] c = "m" -> 109]
    @@ [c \in {Digits[i] : i \in DOMAIN Digits} |->
           47 + (CHOOSE i \in DOMAIN Digits : Digits[i] = c)]
charCodeAt(str, i) == CharCodes[str[i]]

\* A 32-bit integer is kept as its two 16-bit halves <<high, low>>.
Half == 65536

\* hash = ((hash << 5) - hash) + chr; hash |= 0.
hashStep(hash, chr) ==
    LET low == 31 * hash[2] + chr
    IN <<(31 * hash[1] + (low \div Half)) % Half, low % Half>>

RECURSIVE hashLoop(_, _, _)
hashLoop(str, i, hash) ==
    IF i > Len(str) THEN hash
    ELSE hashLoop(str, i + 1, hashStep(hash, charCodeAt(str, i)))

\* if (hash < 0) hash = -(hash - 1).
hashFold(hash) ==
    IF hash[1] < Half \div 2 THEN hash
    ELSE LET low == (Half - hash[2]) + 1
         IN <<(Half - 1 - hash[1]) + (low \div Half), low % Half>>

\* Four hexadecimal digits of a 16-bit half.
Hex4(n) ==
    HexDigits[(n \div 4096) + 1] \o HexDigits[((n \div 256) % 16) + 1]
    \o HexDigits[((n \div 16) % 16) + 1] \o HexDigits[(n % 16) + 1]

\* Vidi.checksum of a string: "xxxx-xxxx".
checksum(str) ==
    LET hash == hashFold(hashLoop(str, 1, <<0, 0>>))
    IN Hex4(hash[1]) \o "-" \o Hex4(hash[2])

\* JSON.stringify of an array of single-digit numbers.
RECURSIVE joinDigits(_, _)
joinDigits(list, i) ==
    IF i > Len(list) THEN <<>>
    ELSE (IF i > 1 THEN <<",">> ELSE <<>>) \o <<Digits[list[i] + 1]>>
         \o joinDigits(list, i + 1)
stringifyList(list) == <<"[">> \o joinDigits(list, 1) \o <<"]">>

\* ------------------------------------------------------------- the document
\* Nodes are objects of the record dom: d.nodes[i] is node i, its children
\* are ids in order, parent is 0 for a detached node, on are its listeners. Operators take the
\* record d and return it after the call; a created node is the last one.
Node(type, tag, attrs, text) ==
    [type |-> type, tag |-> tag, attrs |-> attrs, text |-> text,
     value |-> "", on |-> <<>>, kids |-> <<>>, parent |-> 0]
Attr(name, val) == [n |-> name, v |-> val]

\* getAttribute: null for an attribute the node does not have.
NoAttr == "(null)"
getAttribute(node, a) ==
    LET hits == {i \in DOMAIN node.attrs : node.attrs[i].n = a}
    IN IF node.type # "elem" \/ hits = {} THEN NoAttr
       ELSE node.attrs[CHOOSE i \in hits : TRUE].v
AttrSet(v) == v \notin {NoAttr, ""}
setAttribute(d, n, a, val) ==
    LET attrs == d.nodes[n].attrs
    IN IF \E i \in DOMAIN attrs : attrs[i].n = a
       THEN [d EXCEPT !.nodes[n].attrs =
                [i \in DOMAIN attrs |-> IF attrs[i].n = a THEN Attr(a, val) ELSE attrs[i]]]
       ELSE [d EXCEPT !.nodes[n].attrs = Append(@, Attr(a, val))]

LastNode(d) == Len(d.nodes)
createElement(d, tag) == [d EXCEPT !.nodes = Append(@, Node("elem", tag, <<>>, ""))]
createTextNode(d, text) == [d EXCEPT !.nodes = Append(@, Node("text", "", <<>>, text))]
createComment(d, text) == [d EXCEPT !.nodes = Append(@, Node("comment", "", <<>>, text))]

Without(seq, x) == SelectSeq(seq, LAMBDA y : y # x)

\* A node that is inserted somewhere is first removed from where it is.
detach(d, c) ==
    LET p == d.nodes[c].parent
    IN IF p = 0 THEN d
       ELSE [d EXCEPT !.nodes[p].kids = Without(@, c), !.nodes[c].parent = 0]
appendChild(d, p, c) ==
    LET d1 == detach(d, c)
    IN [d1 EXCEPT !.nodes[p].kids = Append(@, c), !.nodes[c].parent = p]
removeChild(d, p, c) == detach(d, c)
replaceChild(d, p, new, old) ==
    LET d1 == detach(d, new)
        kids == d1.nodes[p].kids
    IN [d1 EXCEPT !.nodes[p].kids = [i \in DOMAIN kids |-> IF kids[i] = old THEN new ELSE kids[i]],
                  !.nodes[old].parent = 0,
                  !.nodes[new].parent = p]

\* node.textContent: the text of a text or comment node, the texts of the
\* descendants of an element (comments left out).
RECURSIVE textContent(_, _)
RECURSIVE textOfKids(_, _, _)
textOfKids(d, kids, i) ==
    IF i > Len(kids) THEN ""
    ELSE (IF d.nodes[kids[i]].type = "comment" THEN "" ELSE textContent(d, kids[i]))
         \o textOfKids(d, kids, i + 1)
textContent(d, n) ==
    IF d.nodes[n].type = "elem" THEN textOfKids(d, d.nodes[n].kids, 1)
    ELSE d.nodes[n].text

\* element.textContent = text: the children are dropped, one text node is
\* put in their place when the text is not empty.
setTextContent(d, n, text) ==
    LET d1 == [d EXCEPT !.nodes =
                  [i \in DOMAIN d.nodes |->
                      IF i = n THEN [d.nodes[i] EXCEPT !.kids = <<>>]
                      ELSE IF d.nodes[i].parent = n THEN [d.nodes[i] EXCEPT !.parent = 0]
                      ELSE d.nodes[i]]]
    IN IF text = "" THEN d1
       ELSE appendChild(createTextNode(d1, text), n, LastNode(d1) + 1)

\* childElementCount, undefined (counted as none) for text and comments.
childElementCount(d, n) ==
    Cardinality({i \in DOMAIN d.nodes[n].kids : d.nodes[d.nodes[n].kids[i]].type = "elem"})

\* -------------------------------------------------- evaluating the template
\* The model of the rendered unit is {count, items}: a digit and a list of
\* digits. eval of a name: the local, else the model key, else null.
NullValue == -1
evalIn(d, e, tv) ==
    IF e \in DOMAIN tv THEN tv[e]
    ELSE IF e \in DOMAIN d.data THEN d.data[e]
    ELSE NullValue

\* String(x) for what eval returns here, and !x.
ToText(x) == IF x = NullValue THEN "null" ELSE Digits[x + 1]
IsFalsy(x) == x = NullValue \/ x = 0

\* The texts of the templates that hold a moustache, with its expression;
\* any other text is returned as it is.
Moustaches == [count |-> "{{count}}", item |-> "{{item}}"]
parseMoustache(d, str, tv) ==
    IF \E e \in DOMAIN Moustaches : Moustaches[e] = str
    THEN ToText(evalIn(d, CHOOSE e \in DOMAIN Moustaches : Moustaches[e] = str, tv))
    ELSE str

\* ------------------------------------------------------------- cloneElement
\* The source texts of the event attributes, as characters, and the same as
\* attribute values.
EventSources == {<<"A", "a", "(", ")">>, <<"B", "B", "(", ")">>, <<"A", "B", "(", ")">>}
RECURSIVE Join(_)
Join(chars) == IF chars = <<>> THEN "" ELSE Head(chars) \o Join(Tail(chars))
Chars(str) == CHOOSE chars \in EventSources : Join(chars) = str

\* JSON.stringify of the local scope: {} or {"item":n}.
stringifyScope(tv) ==
    IF DOMAIN tv = {} THEN <<"{", "}">>
    ELSE <<"{", "'", "i", "t", "e", "m", "'", ":", Digits[tv["item"] + 1], "}">>

\* The attribute names cloneElement tells apart.
EventAttrs == {"v-on:click"}
ReemittedAttrs == {"v-static", "v-component"}
ConsumedAttrs == {"v-if", "v-for", "v-eventid", "v-show", "v-instance"}
UnknownAttrs == {"v-view"}

\* The loop over getAttributeNames(): r.d is the document, r.sum the
\* checksumstr collected so far.
RECURSIVE cloneAttrs(_, _, _, _, _)
cloneAttrs(r, nw, attrs, tv, i) ==
    IF i > Len(attrs) THEN r
    ELSE LET a == attrs[i].n
             val == attrs[i].v
             next ==
                IF a \in EventAttrs
                THEN [d |-> [r.d EXCEPT !.nodes[nw].on = Append(@, [src |-> val, tv |-> tv])],
                      sum |-> r.sum \o <<"/", "/">> \o Chars(val)]
                ELSE IF a \in ReemittedAttrs THEN [r EXCEPT !.d = setAttribute(r.d, nw, a, val)]
                ELSE IF a \in ConsumedAttrs THEN r
                ELSE IF a \in UnknownAttrs THEN [r EXCEPT !.d.warns = @ + 1]
                ELSE [r EXCEPT !.d = setAttribute(r.d, nw, a, parseMoustache(r.d, val, tv))]
         IN cloneAttrs(next, nw, attrs, tv, i + 1)

\* The signature: set when listeners were added to the clone.
signClone(r, nw, tv) ==
    IF r.sum = <<>> THEN r.d
    ELSE setAttribute(r.d, nw, "v-eventid",
                      checksum(r.sum \o <<"/", "/">> \o stringifyScope(tv)))

\* cloneElement, appendClone and renderTemplate call each other; each
\* returns the document, cloneElement and appendClone with the clone in ret.
RECURSIVE cloneElement(_, _, _)
RECURSIVE renderTemplate(_, _, _, _)
RECURSIVE renderChildren(_, _, _, _, _)
RECURSIVE renderEntries(_, _, _, _, _, _, _, _)

\* for (let cn of orig.childNodes) self.renderTemplate (nw, cn, tempvars).
renderChildren(d, into, kids, tv, i) ==
    IF i > Len(kids) THEN d
    ELSE renderChildren(renderTemplate(d, into, kids[i], tv), into, kids, tv, i + 1)

\* The new element with its attributes and signature; it is node
\* LastNode(d) + 1.
cloneStart(d, orig, tv) ==
    IF d.nodes[orig].type = "elem"
    THEN signClone(cloneAttrs([d |-> createElement(d, d.nodes[orig].tag), sum |-> <<>>],
                              LastNode(d) + 1, d.nodes[orig].attrs, tv, 1),
                   LastNode(d) + 1, tv)
    ELSE createElement(d, "UNDEFINED")

\* if (! orig.childElementCount): the text of a leaf is parsed again and
\* set as the clone's text.
cloneText(d, orig, nw, tv) ==
    [(IF (d.nodes[orig].type # "elem" \/ childElementCount(d, orig) = 0)
         /\ textContent(d, orig) # ""
      THEN setTextContent(d, nw, parseMoustache(d, textContent(d, orig), tv))
      ELSE d) EXCEPT !.ret = nw]

cloneElement(d, orig, tv) ==
    cloneText(renderChildren(cloneStart(d, orig, tv), LastNode(d) + 1,
                             d.nodes[orig].kids, tv, 1),
              orig, LastNode(d) + 1, tv)

appendCloned(d, into, hide) ==
    appendChild(IF hide THEN setAttribute(d, d.ret, "style", "display: none;") ELSE d,
                into, d.ret)
appendClone(d, into, orig, tv, hide) ==
    appendCloned(cloneElement(d, orig, tv), into, hide)

\* The v-for texts of the templates: loop variable and collection.
LoopTexts == [x \in {"item in items"} |-> [loopvar |-> "item", loopval |-> "items"]]

\* The memoization test of a loop site.
\* (mutant) an entry is reused whatever its checksum.
cacheHitAny(d, loopfor, datachk) == loopfor \in DOMAIN d.cache

cacheHit(d, loopfor, datachk) ==
    loopfor \in DOMAIN d.cache /\ d.cache[loopfor].datachk = datachk

\* for (let elm of cache.elements) into.appendChild (elm).
RECURSIVE appendAll(_, _, _, _)
appendAll(d, into, elements, i) ==
    IF i > Len(elements) THEN d
    ELSE appendAll(appendChild(d, into, elements[i]), into, elements, i + 1)

\* for (let i in data): one clone per entry, pushed on the new entry.
pushClone(d, loopfor, orig) ==
    [d EXCEPT !.cache[loopfor].elements = Append(@, d.ret),
              !.loops = Append(@, [e |-> "clone", site |-> orig, node |-> d.ret])]
renderEntries(d, into, orig, tv, hide, loopfor, data, i) ==
    IF i > Len(data) THEN d
    ELSE renderEntries(
             pushClone(appendClone(d, into, orig,
                                   [k \in DOMAIN tv \cup {LoopTexts[loopfor].loopvar} |->
                                       IF k = LoopTexts[loopfor].loopvar THEN data[i]
                                       ELSE tv[k]],
                                   hide),
                       loopfor, orig),
             into, orig, tv, hide, loopfor, data, i + 1)

\* The v-if test and what a false one leaves in the output.
conditionFalse(d, orig, tv) ==
    LET vif == getAttribute(d.nodes[orig], "v-if")
    IN AttrSet(vif) /\ IsFalsy(evalIn(d, vif, tv))

\* (mutant) a false condition leaves nothing in the output.
placeholderOmitted(d, into) == d

placeholder(d, into) == appendChild(createComment(d, "v-if"), into, LastNode(d) + 1)

renderTemplate(d, into, orig, tv) ==
    LET o == d.nodes[orig]
        vshow == getAttribute(o, "v-show")
        hide == AttrSet(vshow) /\ IsFalsy(evalIn(d, vshow, tv))
        loopfor == getAttribute(o, "v-for")
    IN IF o.type = "elem"
       THEN IF conditionFalse(d, orig, tv)
            THEN placeholder(d, into)
            ELSE IF AttrSet(loopfor)
            THEN LET data == evalIn(d, LoopTexts[loopfor].loopval, tv)
                     datachk == checksum(stringifyList(data))
                 IN IF cacheHit(d, loopfor, datachk)
                    THEN [appendAll(d, into, d.cache[loopfor].elements, 1)
                             EXCEPT !.loops = Append(@, [e |-> "reuse", site |-> orig, node |-> 0])]
                    ELSE renderEntries(
                             [d EXCEPT !.cache = [k \in DOMAIN d.cache \cup {loopfor} |->
                                                     IF k = loopfor
                                                     THEN [datachk |-> datachk, elements |-> <<>>]
                                                     ELSE d.cache[k]]],
                             into, orig, tv, hide, loopfor, data, 1)
            ELSE appendClone(d, into, orig, tv, hide)
       ELSE IF o.type = "text" /\ o.text # ""
       THEN appendChild(createTextNode(d, parseMoustache(d, o.text, tv)), into, LastNode(d) + 1)
       ELSE d

\* ------------------------------------------------------------ reconciliation
\* The attributes of left after the two loops of compareNodes: those right
\* has too, with right's values, then the ones only right has.
mergeAttrs(left, right) ==
    LET kept == SelectSeq(left.attrs, LAMBDA a : getAttribute(right, a.n) # NoAttr)
        added == SelectSeq(right.attrs, LAMBDA a : getAttribute(left, a.n) = NoAttr)
    IN [i \in DOMAIN kept |-> Attr(kept[i].n, getAttribute(right, kept[i].n))] \o added

\* while (left.childNodes.length < rl) left.appendChild(createElement("div")).
RECURSIVE padChildren(_, _, _)
padChildren(d, left, rl) ==
    IF Len(d.nodes[left].kids) >= rl THEN d
    ELSE padChildren(appendChild(createElement(d, "DIV"), left, LastNode(d) + 1), left, rl)

\* while (left.childNodes.length > rl) left.removeChild(left.lastChild).
RECURSIVE trimChildren(_, _, _)
trimChildren(d, left, rl) ==
    IF Len(d.nodes[left].kids) <= rl THEN d
    ELSE trimChildren(removeChild(d, left, d.nodes[left].kids[Len(d.nodes[left].kids)]),
                      left, rl)

\* The longest child list compareNodes pads or trims.
MaxChildren == 100

\* The child counts compareNodes gives up on: an old node without children
\* that should get some, and an old node with more than MaxChildren whose
\* count differs.
\* (mutant) every difference up to MaxChildren is padded or trimmed.
countTolerant(ll, rl) == ll # rl /\ ll > MaxChildren

countMismatch(ll, rl) ==
    \/ ll < rl /\ (ll = 0 \/ ll > MaxChildren)
    \/ ll > rl /\ ll > MaxChildren

\* compareNodes (left, right): the answer is in ok; left is changed on the
\* way.
compareNodes(d, left, right) ==
    LET l == d.nodes[left]
        r == d.nodes[right]
        ll == Len(l.kids)
        rl == Len(r.kids)
        No(x) == [x EXCEPT !.ok = FALSE]
        d1 == IF ll < rl THEN padChildren(d, left, rl)
              ELSE IF ll > rl THEN trimChildren(d, left, rl)
              ELSE d
        d2 == IF d1.nodes[left].value # r.value
              THEN [d1 EXCEPT !.nodes[left].value = r.value]
              ELSE d1
        lefteventid == getAttribute(l, "v-eventid")
        righteventid == getAttribute(r, "v-eventid")
    IN IF l.type # r.type THEN No(d)
       ELSE IF l.tag # r.tag THEN No(d)
       ELSE IF getAttribute(l, "v-static") = "keep" THEN [d EXCEPT !.ok = TRUE]
       ELSE IF countMismatch(ll, rl) THEN No(d)
       ELSE IF childElementCount(d1, left) = 0
               /\ textContent(d1, left) # textContent(d1, right) THEN No(d1)
       ELSE IF l.type # "elem" THEN [d2 EXCEPT !.ok = TRUE]
       ELSE IF (AttrSet(lefteventid) \/ AttrSet(righteventid))
               /\ lefteventid # righteventid THEN No(d2)
       ELSE [d2 EXCEPT !.ok = TRUE,
                       !.nodes[left].attrs = mergeAttrs(d2.nodes[left], r)]

\* The tests transplantDom makes on a non-root node before comparing.
\* (mutant) no node is kept for its marker.
keepNever(d, into) == FALSE

keepStatic(d, into) == getAttribute(d.nodes[into], "v-static") = "keep"

RECURSIVE transplantDom(_, _, _, _)
RECURSIVE transplantChildren(_, _, _, _)
RECURSIVE compared(_, _, _)

\* for (i < from.childNodes.length) transplantDom (into.childNodes[i],
\* from.childNodes[i]); a missing child of into is undefined (0).
transplantChildren(d, into, from, i) ==
    IF d.err # "" \/ i > Len(d.nodes[from].kids) THEN d
    ELSE transplantChildren(
             transplantDom(d, IF i <= Len(d.nodes[into].kids)
                              THEN d.nodes[into].kids[i] ELSE 0,
                           d.nodes[from].kids[i], FALSE),
             into, from, i + 1)

\* The node that is not compatible: an inferior clone takes the place of
\* from in the fresh tree, from the place of into in the live tree.
swapOut(d, from) ==
    IF d.nodes[from].parent # 0
    THEN replaceChild(d, d.nodes[from].parent, d.ret, from)
    ELSE d
putInPlace(d, into, from) ==
    IF d.nodes[into].parent = 0 THEN [d EXCEPT !.err = "TypeError"]
    ELSE replaceChild(d, d.nodes[into].parent, from, into)
replaceNode(c, into, from) ==
    putInPlace(IF c.nodes[from].parent # 0 THEN swapOut(cloneElement(c, from, <<>>), from)
               ELSE c,
               into, from)

\* What follows compareNodes, whose answer is c.ok.
compared(c, into, from) ==
    IF c.ok THEN transplantChildren(c, into, from, 1) ELSE replaceNode(c, into, from)

transplantDom(d, into, from, isroot) ==
    IF into = 0 THEN [d EXCEPT !.err = "TypeError"]
    ELSE IF isroot THEN transplantChildren(d, into, from, 1)
    ELSE IF keepStatic(d, into) THEN d
    ELSE IF getAttribute(d.nodes[into], "v-static") = "non-interactive"
    THEN replaceChild(d, d.nodes[into].parent, from, into)
    ELSE compared(compareNodes(d, into, from), into, from)

\* dorender: a fresh tree is built from the template under a shallow copy of
\* its root, then put in place of the template (first render) or
\* reconciled with the live tree, as its root once the first render is over
\* (self.renderedOnce). built is the document between the two.

freshRoot(d) ==
    setAttribute(
        setAttribute([d EXCEPT !.err = "", !.warns = 0, !.loops = <<>>,
                               !.nodes = Append(@, Node("elem", d.nodes[d.template].tag,
                                                        d.nodes[d.template].attrs, ""))],
                     LastNode(d) + 1, "id", "v"),
        LastNode(d) + 1, "v-view", "v")
reconcile(d, div) ==
    [(IF d.el # 0 THEN transplantDom(d, d.el, div, d.once)
      ELSE [replaceChild(d, d.nodes[d.template].parent, div, d.template) EXCEPT !.el = div])
        EXCEPT !.built = d.nodes, !.ret = 0, !.ok = TRUE]
renderTree(d) ==
    reconcile(renderChildren(freshRoot(d), LastNode(d) + 1,
                             d.nodes[d.template].kids, <<>>, 1),
              LastNode(d) + 1)

\* ------------------------------------------------------- the rendered units
\* A document is written as its nodes with the parent of each; node 1 is the
\* body, node 2 the template element of the unit.
DocOf(specs) ==
    [i \in DOMAIN specs |->
        [specs[i][1] EXCEPT !.parent = specs[i][2],
                            !.kids = SelectSeq([j \in DOMAIN specs |-> j],
                                               LAMBDA j : specs[j][2] = i)]]
El(tag, attrs) == Node("elem", tag, attrs, "")
Tx(text) == Node("text", "", <<>>, text)
ForItems == Attr("v-for", "item in items")
Keep == Attr("v-static", "keep")
NonInteractive == Attr("v-static", "non-interactive")
IfCount == Attr("v-if", "count")

\* The templates: a text; a list under an element; a list directly under the
\* root; a list whose text is another model key; a kept element; a kept
\* list; a text directly under the root; a conditional element with a
\* sibling; a conditional list; two lists with the same v-for text; an
\* element replaced without comparison, with a sibling.
Templates == <<
    << <<El("BODY", <<>>), 0>>, <<El("DIV", <<Attr("id", "v")>>), 1>>,
       <<El("SPAN", <<>>), 2>>, <<Tx("{{count}}"), 3>> >>,
    << <<El("BODY", <<>>), 0>>, <<El("DIV", <<Attr("id", "v")>>), 1>>,
       <<El("UL", <<>>), 2>>, <<El("LI", <<ForItems>>), 3>>, <<Tx("{{item}}"), 4>> >>,
    << <<El("BODY", <<>>), 0>>, <<El("DIV", <<Attr("id", "v")>>), 1>>,
       <<El("LI", <<ForItems>>), 2>>, <<Tx("{{item}}"), 3>> >>,
    << <<El("BODY", <<>>), 0>>, <<El("DIV", <<Attr("id", "v")>>), 1>>,
       <<El("UL", <<>>), 2>>, <<El("LI", <<ForItems>>), 3>>, <<Tx("{{count}}"), 4>> >>,
    << <<El("BODY", <<>>), 0>>, <<El("DIV", <<Attr("id", "v")>>), 1>>,
       <<El("DIV", <<Keep>>), 2>>, <<El("SPAN", <<>>), 3>>, <<Tx("{{count}}"), 4>> >>,
    << <<El("BODY", <<>>), 0>>, <<El("DIV", <<Attr("id", "v")>>), 1>>,
       <<El("UL", <<Keep>>), 2>>, <<El("LI", <<ForItems>>), 3>>, <<Tx("{{item}}"), 4>> >>,
    << <<El("BODY", <<>>), 0>>, <<El("DIV", <<Attr("id", "v")>>), 1>>,
       <<Tx("{{count}}"), 2>> >>,
    << <<El("BODY", <<>>), 0>>, <<El("DIV", <<Attr("id", "v")>>), 1>>,
       <<El("P", <<IfCount, Attr("v-show", "count"), Attr("title", "{{count}}")>>), 2>>,
       <<El("B", <<>>), 3>>, <<Tx("{{count}}"), 4>>,
       <<El("SPAN", <<>>), 2>>, <<Tx("{{count}}"), 6>> >>,
    << <<El("BODY", <<>>), 0>>, <<El("DIV", <<Attr("id", "v")>>), 1>>,
       <<El("UL", <<>>), 2>>, <<El("LI", <<IfCount, ForItems>>), 3>>, <<Tx("{{item}}"), 4>> >>,
    << <<El("BODY", <<>>), 0>>, <<El("DIV", <<Attr("id", "v")>>), 1>>,
       <<El("UL", <<>>), 2>>, <<El("LI", <<ForItems>>), 3>>, <<Tx("{{item}}"), 4>>,
       <<El("OL", <<>>), 2>>, <<El("LI", <<ForItems>>), 6>>, <<Tx("{{item}}"), 7>> >>,
    << <<El("BODY", <<>>), 0>>, <<El("DIV", <<Attr("id", "v")>>), 1>>,
       <<El("DIV", <<>>), 2>>, <<El("P", <<NonInteractive>>), 3>>, <<Tx("{{count}}"), 4>>,
       <<El("SPAN", <<>>), 3>>, <<Tx("{{count}}"), 6>> >> >>

\* The values the caller writes to the two model keys.
Counts == {0, 5}
ItemLists == {<<>>, <<1, 2>>, <<1, 2, 3>>, <<1, 2, 3, 4>>, <<2, 1>>}

\* Number of render requests (model writes, unlock).
MaxRequests == 3

NoSnapshot == [nodes |-> <<>>, el |-> 0, cache |-> <<>>,
               data |-> [count |-> 0, items |-> <<>>], shown |-> [count |-> 0, items |-> <<>>]]
Snapshot(d) == [nodes |-> d.nodes, el |-> d.el, cache |-> d.cache,
                data |-> d.data, shown |-> d.shown]

\* new Vidi.View("v", {model: {count: 0, items: [1,2,3]}}) over template k,
\* before init().
Document(k) ==
    [tpl |-> k, nodes |-> DocOf(Templates[k]), template |-> 2, el |-> 0,
     cache |-> <<>>, data |-> [count |-> 0, items |-> <<1, 2, 3>>],
     shown |-> [count |-> 0, items |-> <<>>],
     pending |-> FALSE, requests |-> 0, last |-> "new",
     err |-> "", warns |-> 0, loops |-> <<>>, ret |-> 0, ok |-> TRUE,
     built |-> <<>>, before |-> NoSnapshot, once |-> FALSE, hook |-> "none"]

\* The same with created() { this.count = n } among the options, n a count
\* other than the model's first.
HookCount == CHOOSE n \in Counts : n # 0
Hooked(k) == [Document(k) EXCEPT !.hook = "write"]
HookedTemplates == {1, 7}

ViewUnchanged ==
    UNCHANGED <<heap, wr, held, lock, once, renderTimeout, timers, bound, el,
                shown, created, updates, dirty, log, err, ops, lastOp, def, call>>

\* A render as a step: r is the document after it, d the one before, which
\* is kept in before.
Rendered(r, d, name) ==
    [r EXCEPT !.before = Snapshot(d), !.shown = r.data, !.pending = FALSE, !.last = name]

\* self.$oncreate(self) at the end of the first dorender: the hook's write
\* changes the model while renderedOnce is still false, so render() runs
\* dorender at once; that one calls the hook again, whose write then changes
\* nothing.
createdHook(d) ==
    IF d.hook = "write" /\ d.data.count # HookCount
    THEN renderTree([d EXCEPT !.data.count = HookCount])
    ELSE d

\* The first dorender: renderedOnce is set when the hook has returned.
firstRender(d) ==
    LET r == createdHook(renderTree(d))
    IN [r EXCEPT !.once = (r.err = "")]

\* init(): binds the template and renders at once.
Bind ==
    /\ dom.el = 0 /\ dom.last = "new"
    /\ dom' = Rendered(firstRender(dom), dom, "init")
    /\ ViewUnchanged

\* A write that changes a model key starts the render timer.
Requested(d, name) ==
    [d EXCEPT !.pending = TRUE, !.requests = @ + 1, !.last = name]

SetCount(n) ==
    /\ dom.once /\ dom.requests < MaxRequests
    /\ n # dom.data.count
    /\ dom' = Requested([dom EXCEPT !.data.count = n], "write")
    /\ ViewUnchanged

SetItems(list) ==
    /\ dom.once /\ dom.requests < MaxRequests
    /\ list # dom.data.items
    /\ dom' = Requested([dom EXCEPT !.data.items = list], "write")
    /\ ViewUnchanged

\* A render requested without a change of the model (unlock()).
Request ==
    /\ dom.once /\ dom.requests < MaxRequests
    /\ dom' = Requested(dom, "request")
    /\ ViewUnchanged

\* The timer callback runs dorender.
RenderTimer ==
    /\ dom.pending
    /\ dom' = Rendered(renderTree(dom), dom, "render")
    /\ ViewUnchanged

DomInit ==
    /\ ViewInit /\ def.updated = "none" /\ call = NoCall
    /\ dom \in {Document(k) : k \in DOMAIN Templates} \cup {Hooked(k) : k \in HookedTemplates}

DomNext ==
    \/ Bind
    \/ \E n \in Counts : SetCount(n)
    \/ \E list \in ItemLists : SetItems(list)
    \/ Request
    \/ RenderTimer

DomSpec == DomInit /\ [][DomNext]_vars

\* The live tree: the nodes under self.$el in document order.
RECURSIVE Subtree(_, _)
RECURSIVE SubtreeOfAll(_, _, _)
SubtreeOfAll(nodes, kids, i) ==
    IF i > Len(kids) THEN <<>>
    ELSE Subtree(nodes, kids[i]) \o SubtreeOfAll(nodes, kids, i + 1)
Subtree(nodes, n) == <<n>> \o SubtreeOfAll(nodes, nodes[n].kids, 1)

LiveText == textContent(dom, dom.el)
RenderDone == dom.el # 0 /\ dom.last \in {"init", "render"}

\* The text the template gives for the model as it is now, evaluated without
\* the loop cache.
RECURSIVE NodeText(_, _, _)
RECURSIVE LoopText(_, _, _)
RECURSIVE KidsText(_, _, _, _)
RECURSIVE EntriesText(_, _, _, _, _)
KidsText(d, kids, tv, i) ==
    IF i > Len(kids) THEN "" ELSE LoopText(d, kids[i], tv) \o KidsText(d, kids, tv, i + 1)
EntriesText(d, n, tv, data, i) ==
    IF i > Len(data) THEN ""
    ELSE NodeText(d, n, [k \in DOMAIN tv \cup {"item"} |-> IF k = "item" THEN data[i] ELSE tv[k]])
         \o EntriesText(d, n, tv, data, i + 1)
LoopText(d, n, tv) ==
    IF AttrSet(getAttribute(d.nodes[n], "v-for"))
    THEN EntriesText(d, n, tv, d.data.items, 1)
    ELSE NodeText(d, n, tv)
NodeText(d, n, tv) ==
    IF d.nodes[n].type = "text" THEN parseMoustache(d, d.nodes[n].text, tv)
    ELSE KidsText(d, d.nodes[n].kids, tv, 1)

KeptTemplates == {k \in DOMAIN Templates : \E i \in DOMAIN Templates[k] : Keep \in
                     {Templates[k][i][1].attrs[j] : j \in DOMAIN Templates[k][i][1].attrs}}
HasAttr(k, i, a) == a \in {Templates[k][i][1].attrs[j] : j \in DOMAIN Templates[k][i][1].attrs}
LoopSites(k) == {i \in DOMAIN Templates[k] : HasAttr(k, i, ForItems)}
\* The templates with one loop site, which every render reaches.
LoopTemplates == {k \in DOMAIN Templates :
                     /\ Cardinality(LoopSites(k)) = 1
                     /\ \A i \in LoopSites(k) : ~HasAttr(k, i, IfCount)}

\* C11 (as stated): once a render has completed and the model has not
\* changed since it started, the text of the live tree is the text the
\* template gives for the current model, also inside iteration clones whose
\* text depends on another model key.
OutputSynchronized ==
    (RenderDone /\ dom.err = "" /\ ~dom.pending /\ dom.tpl \notin KeptTemplates)
    => LiveText = NodeText(dom, dom.template, <<>>)

\* ------------------------------------------------------------- loop memo
LoopSite == "item in items"
DataChecksum == checksum(stringifyList(dom.data.items))
MemoHit == /\ LoopSite \in DOMAIN dom.before.cache
           /\ dom.before.cache[LoopSite].datachk = DataChecksum
FreshNode(n) == n > Len(dom.before.nodes)

\* C12: when the loop site is rendered its stored clones are reused, and no
\* clone is rendered, exactly when an entry exists whose checksum equals the
\* checksum of the evaluated collection; otherwise the entry is replaced by
\* one with the new checksum and one fresh clone per entry of the
\* collection, in order.
LoopMemoization ==
    (RenderDone /\ dom.tpl \in LoopTemplates) =>
        LET entry == dom.cache[LoopSite]
        IN IF MemoHit
           THEN /\ entry = dom.before.cache[LoopSite]
                /\ \A i \in DOMAIN dom.loops : dom.loops[i].e = "reuse"
                /\ \A i \in DOMAIN entry.elements :
                       /\ ~FreshNode(entry.elements[i])
                       /\ FreshNode(dom.built[entry.elements[i]].parent)
           ELSE /\ entry.datachk = DataChecksum
                /\ Len(entry.elements) = Len(dom.data.items)
                /\ \A i \in DOMAIN entry.elements :
                       /\ FreshNode(entry.elements[i])
                       /\ \A j \in DOMAIN entry.elements :
                              entry.elements[i] = entry.elements[j] => i = j
                       /\ dom.built[entry.elements[i]].tag = "LI"
                /\ dom.loops = [i \in DOMAIN entry.elements |->
                                   [e |-> "clone", site |-> dom.loops[i].site,
                                    node |-> entry.elements[i]]]

LoopMemoizationWitness ==
    /\ RenderDone /\ dom.tpl = 2 /\ dom.last = "render"
    /\ MemoHit
    /\ Len(dom.cache[LoopSite].elements) = 3
    /\ \E i \in DOMAIN dom.loops : dom.loops[i].e = "reuse"

\* -------------------------------------------------------- iteration clones
\* The siblings the loop produced in the live tree: the children of the
\* list element, or of the root when the loop sits directly under it.
LoopParent(snap) ==
    IF snap.nodes[snap.el].kids # <<>>
       /\ snap.nodes[snap.nodes[snap.el].kids[1]].tag = "UL"
    THEN snap.nodes[snap.el].kids[1] ELSE snap.el
Siblings(snap) == snap.nodes[LoopParent(snap)].kids
Appended == /\ Len(dom.data.items) = Len(dom.before.shown.items) + 1
            /\ SubSeq(dom.data.items, 1, Len(dom.before.shown.items)) = dom.before.shown.items

\* C13 (as stated): after a render the live tree holds one sibling per entry
\* of the collection, in its order, and when the collection got one entry
\* appended the siblings of the entries it had are the same node objects as
\* before, also when the iterated element sits directly under the root.
SiblingsInOrder ==
    (RenderDone /\ ~dom.pending /\ dom.tpl \in {2, 3}) =>
        /\ [i \in DOMAIN Siblings(dom) |-> textContent(dom, Siblings(dom)[i])]
               = [i \in DOMAIN dom.data.items |-> ToText(dom.data.items[i])]
        /\ (dom.last = "render" /\ Appended) =>
               SubSeq(Siblings(dom), 1, Len(dom.before.shown.items)) = Siblings(dom.before)

\* ------------------------------------------------------ identity, keep
\* C14 (as stated): a re-render with no mutation since the previous render
\* replaces no node: the live tree holds the same node objects, in the same
\* places, as before it, the parents of memoized loop clones included.
IdentityPreserved ==
    (RenderDone /\ dom.last = "render" /\ dom.data = dom.before.shown) =>
        Subtree(dom.nodes, dom.el) = Subtree(dom.before.nodes, dom.before.el)

\* The non-root nodes of the live tree that carry the keep marker when the
\* reconciliation starts.
KeptNodes ==
    {n \in DOMAIN dom.built :
        /\ n # dom.before.el
        /\ \E i \in DOMAIN Subtree(dom.built, dom.before.el) :
               Subtree(dom.built, dom.before.el)[i] = n
        /\ getAttribute(dom.built[n], "v-static") = "keep"}

\* C16: reconciling a non-root live node that carries the keep marker leaves
\* it and every node under it as they were: same objects, attributes,
\* children, text and value.
KeepUntouched ==
    (RenderDone /\ dom.last = "render") =>
        \A n \in KeptNodes :
            \A i \in DOMAIN Subtree(dom.built, n) :
                dom.nodes[Subtree(dom.built, n)[i]] = dom.built[Subtree(dom.built, n)[i]]

KeepUntouchedWitness ==
    /\ RenderDone /\ dom.last = "render" /\ dom.tpl = 5 /\ dom.err = ""
    /\ dom.data.count = 5 /\ dom.before.shown.count = 0
    /\ KeptNodes # {}
    /\ LiveText = "0"

\* ------------------------------------------------------- event signatures
\* Two buttons of a template, each with its click source (or none) and the
\* local scope it is cloned with.
NoSource == ""
ButtonSources == {Join(chars) : chars \in EventSources} \cup {NoSource}
ButtonScopes == {<<>>, [item |-> 1], [item |-> 2]}
Button(source) ==
    El("BUTTON", IF source = NoSource THEN <<>> ELSE <<Attr("v-on:click", source)>>)
ButtonDoc(left, right) ==
    [nodes |-> DocOf(<< <<Button(left), 0>>, <<Tx("go"), 1>>,
                        <<Button(right), 0>>, <<Tx("go"), 3>> >>),
     cache |-> <<>>, data |-> [count |-> 0, items |-> <<>>],
     err |-> "", warns |-> 0, loops |-> <<>>, ret |-> 0, ok |-> TRUE]

SignInputs ==
    {[fn |-> "sign", done |-> FALSE,
      arg |-> [left |-> [source |-> ls, tv |-> ltv], right |-> [source |-> rs, tv |-> rtv]]] :
        ls \in ButtonSources, rs \in ButtonSources,
        ltv \in ButtonScopes, rtv \in ButtonScopes}

\* Both buttons are cloned and the first clone is compared with the second,
\* as transplantDom does with a live node and a fresh one.
signResult(c, d, left, right) ==
    [lefteventid |-> getAttribute(d.nodes[left], "v-eventid"),
     righteventid |-> getAttribute(d.nodes[right], "v-eventid"),
     compatible |-> c.ok,
     on |-> c.nodes[left].on]
signCompare(d, left) == signResult(compareNodes(d, left, d.ret), d, left, d.ret)
signSecond(d, arg) == signCompare(cloneElement(d, 3, arg.right.tv), d.ret)
sign(arg) ==
    signSecond(cloneElement(ButtonDoc(arg.left.source, arg.right.source), 1, arg.left.tv),
               arg)

Sign ==
    /\ call.fn = "sign" /\ ~call.done
    /\ call' = [call EXCEPT !.done = TRUE] @@ [res |-> sign(call.arg)]
    /\ UNCHANGED <<heap, wr, held, lock, once, renderTimeout, timers, bound, el,
                   shown, created, updates, dirty, log, err, ops, lastOp, def, dom>>

\* C15 (as stated): two nodes of which only one carries a signature, or
\* whose signatures differ, are incompatible; and two nodes with a listener
\* that differ in its source text or in their local scope always get
\* different signatures, so that they are incompatible.
SignatureProtection ==
    (call.fn = "sign" /\ call.done) =>
        /\ call.res.lefteventid # call.res.righteventid => ~call.res.compatible
        /\ (/\ call.arg.left.source # NoSource /\ call.arg.right.source # NoSource
            /\ call.arg.left # call.arg.right) =>
               /\ call.res.lefteventid # call.res.righteventid
               /\ ~call.res.compatible

\* --------------------------------------------- eval: the assignment rewriting
\* An expression text is a sequence of characters. WordChars stands for the
\* class [a-zA-Z0-9_] of the three regular expressions.
WordChars == {"p", "q", "x", "n", "d", "a", "t", "_", "1"}
Signs == {"+", "-"}
DataPrefix == <<"_", "_", "d", "a", "t", "a", ".">>

CharAt(e, i) == IF i \in 1..Len(e) THEN e[i] ELSE ""

\* The last index of the run of word characters that starts at i, and the
\* first index from k on that holds no space.
RECURSIVE RunEnd(_, _)
RunEnd(e, i) == IF CharAt(e, i + 1) \in WordChars THEN RunEnd(e, i + 1) ELSE i
RECURSIVE SkipSpaces(_, _)
SkipSpaces(e, k) == IF CharAt(e, k) = " " THEN SkipSpaces(e, k + 1) ELSE k

\* The end of a match that starts at i (0 when there is none) of
\* /[a-zA-Z0-9_]+ *=[^=]/, /[a-zA-Z0-9_]+[+-]{2}/ and /[+-]{2}[a-zA-Z0-9_]+/.
AssignMatch(e, i) ==
    IF CharAt(e, i) \notin WordChars THEN 0
    ELSE IF /\ CharAt(e, SkipSpaces(e, RunEnd(e, i) + 1)) = "="
            /\ CharAt(e, SkipSpaces(e, RunEnd(e, i) + 1) + 1) \notin {"", "="}
    THEN SkipSpaces(e, RunEnd(e, i) + 1) + 1
    ELSE 0
PostMatch(e, i) ==
    IF CharAt(e, i) \notin WordChars THEN 0
    ELSE IF /\ CharAt(e, RunEnd(e, i) + 1) \in Signs
            /\ CharAt(e, RunEnd(e, i) + 2) \in Signs
    THEN RunEnd(e, i) + 2
    ELSE 0
PreMatch(e, i) ==
    IF CharAt(e, i) \in Signs /\ CharAt(e, i + 1) \in Signs /\ CharAt(e, i + 2) \in WordChars
    THEN RunEnd(e, i + 2)
    ELSE 0

\* if (self.$data[varname] !== undefined) return "__data."+m; return m.
Prefixed(s, varname, m) ==
    IF DataAt(s, Join(varname)).t # "absent" THEN DataPrefix \o m ELSE m

\* e.replace(regex, fn): the text from index i on, each match replaced.
RECURSIVE replaceAssign(_, _, _)
replaceAssign(s, e, i) ==
    IF i > Len(e) THEN <<>>
    ELSE IF AssignMatch(e, i) = 0 THEN <<e[i]>> \o replaceAssign(s, e, i + 1)
    ELSE Prefixed(s, SubSeq(e, i, RunEnd(e, i)), SubSeq(e, i, AssignMatch(e, i)))
         \o replaceAssign(s, e, AssignMatch(e, i) + 1)

RECURSIVE replacePost(_, _, _)
replacePost(s, e, i) ==
    IF i > Len(e) THEN <<>>
    ELSE IF PostMatch(e, i) = 0 THEN <<e[i]>> \o replacePost(s, e, i + 1)
    ELSE Prefixed(s, SubSeq(e, i, RunEnd(e, i)), SubSeq(e, i, PostMatch(e, i)))
         \o replacePost(s, e, PostMatch(e, i) + 1)

RECURSIVE replacePre(_, _, _)
replacePre(s, e, i) ==
    IF i > Len(e) THEN <<>>
    ELSE IF PreMatch(e, i) = 0 THEN <<e[i]>> \o replacePre(s, e, i + 1)
    ELSE SubSeq(e, i, i + 1)
         \o Prefixed(s, SubSeq(e, i + 2, PreMatch(e, i)), SubSeq(e, i + 2, PreMatch(e, i)))
         \o replacePre(s, e, PreMatch(e, i) + 1)

\* The three replacements in the order of the code.
rewrite(s, e) == replacePre(s, replacePost(s, replaceAssign(s, e, 1), 1), 1)

\* e.indexOf(id) >= 0.
Contains(e, id) == \E i, j \in DOMAIN e : i <= j /\ Join(SubSeq(e, i, j)) = id

\* The statement the generated function holds, read without its spaces: an
\* optional ++ or --, a dotted path, and nothing, ++, --, =1 or +=1 after it.
Squeeze(e) == SelectSeq(e, LAMBDA c : c # " ")
HasPre(t) == CharAt(t, 1) \in Signs /\ CharAt(t, 2) \in Signs
Body(t) == IF HasPre(t) THEN SubSeq(t, 3, Len(t)) ELSE t
RECURSIVE PathEnd(_, _)
PathEnd(b, i) == IF CharAt(b, i) \in WordChars \cup {"."} THEN PathEnd(b, i + 1) ELSE i - 1
RECURSIVE SplitAt(_, _, _)
SplitAt(c, i, cur) ==
    IF i > Len(c) THEN <<cur>>
    ELSE IF c[i] = "." THEN <<cur>> \o SplitAt(c, i + 1, "")
    ELSE SplitAt(c, i + 1, cur \o c[i])
OpOf(pre, first, suffix) ==
    IF pre THEN (IF suffix # <<>> THEN "bad" ELSE IF first = "+" THEN "incr" ELSE "decr")
    ELSE IF suffix = <<>> THEN "read"
    ELSE IF suffix = <<"+", "+">> THEN "incr"
    ELSE IF suffix = <<"-", "-">> THEN "decr"
    ELSE IF suffix = <<"=", "1">> THEN "set"
    ELSE IF suffix = <<"+", "=", "1">> THEN "add"
    ELSE "bad"
Parsed(t, b) ==
    [path |-> SplitAt(SubSeq(b, 1, PathEnd(b, 1)), 1, ""),
     op |-> OpOf(HasPre(t), CharAt(t, 1), SubSeq(b, PathEnd(b, 1) + 1, Len(b)))]
parseStmt(e) == Parsed(Squeeze(e), Body(Squeeze(e)))
WellFormed(st) == st.op # "bad" /\ \A i \in DOMAIN st.path : st.path[i] # ""

\* The value of x after x++, x-- or x += 1.
NaN == [t |-> "nan", v |-> 0]
Bump(x, op) ==
    IF x.t # "num" THEN NaN
    ELSE IF op = "decr" THEN Num(x.v - 1) ELSE Num(x.v + 1)

\* "var id = __data.id;" for every key of $data whose name occurs in the
\* text, from the i-th key on, then "var lid = __locals.lid;".
bindVar(r, name) == IF r.err # "" THEN r ELSE [r EXCEPT !.vars = (name :> r.ret) @@ @]
RECURSIVE declareKeys(_, _, _)
declareKeys(g, e, i) ==
    IF i > Len(PropSeq) \/ g.err # "" THEN g
    ELSE IF PropSeq[i] \in KeysOf(g, 1) /\ Contains(e, PropSeq[i])
    THEN declareKeys(bindVar(getProperty(g, 1, PropSeq[i]), PropSeq[i]), e, i + 1)
    ELSE declareKeys(g, e, i + 1)
declareLocals(g, e) ==
    IF g.err # "" THEN g
    ELSE [g EXCEPT !.vars = [n \in {x \in DOMAIN g.tv : Contains(e, x)} |-> g.tv[n]] @@ @]

\* What a name refers to inside the generated function.
Params == [__data |-> Handle(1), __locals |-> Scope, __self |-> Host]
Known(g, name) ==
    name \in DOMAIN g.vars \cup DOMAIN Params \cup EvalScope \cup Globals
ValueOf(g, name) ==
    IF name \in DOMAIN g.vars THEN g.vars[name]
    ELSE IF name \in DOMAIN Params THEN Params[name]
    ELSE IF name \in Globals THEN Host ELSE Str

\* The walk along the path up to the object that holds the last segment.
RECURSIVE walkPath(_, _, _, _)
RECURSIVE walkOn(_, _, _)
walkOn(r, path, i) == IF r.err # "" THEN r ELSE walkPath(r, r.ret, path, i + 1)
walkPath(g, cur, path, i) ==
    IF i >= Len(path) THEN Return(g, cur)
    ELSE walkOn(Index(g, cur, path[i]), path, i)

update(r, parent, key, op) ==
    IF r.err # "" THEN r ELSE Assign(r, parent, key, Bump(r.ret, op))

\* The operation on the last segment of a dotted path.
finish(r, key, op) ==
    IF r.err # "" THEN r
    ELSE IF op = "read" THEN Index(r, r.ret, key)
    ELSE IF op = "set" THEN Assign(r, r.ret, key, Num(1))
    ELSE update(Index(r, r.ret, key), r.ret, key, op)

\* The generated function's statement: a name alone is a variable of the
\* function (its assignment stays in the function), a dotted path is walked.
runStmt(g, st) ==
    IF g.err # "" THEN g
    ELSE IF ~WellFormed(st) THEN Throw(g, "SyntaxError")
    ELSE IF ~Known(g, st.path[1]) THEN Throw(g, "ReferenceError")
    ELSE IF Len(st.path) = 1 THEN g
    ELSE finish(walkPath(g, ValueOf(g, st.path[1]), st.path, 2),
                st.path[Len(st.path)], st.op)

\* catch (err): one diagnostic for a ReferenceError, three for anything else.
caught(g) ==
    IF g.err = "" THEN g
    ELSE [g EXCEPT !.warns = IF g.err = "ReferenceError" THEN 1 ELSE 3, !.err = ""]

\* The two lookups by the whole text at the start of eval.
FastPath(g, e) ==
    /\ Len(parseStmt(e).path) = 1 /\ Join(e) = parseStmt(e).path[1]
    /\ LocalAt(g.tv, Join(e)).t # "absent" \/ DataAt(g, Join(e)).t # "absent"

\* eval(e, tempvars, true).
compiled(g, e, src) ==
    caught(runStmt(declareLocals(declareKeys([g EXCEPT !.src = src], e, 1), e),
                   parseStmt(src)))
evalStmt(g, e) == IF FastPath(g, e) THEN g ELSE compiled(g, e, rewrite(g, e))

\* The statements of the listeners (v-on) and the local scopes they run in.
Statements ==
    { <<"q", " ", "=", " ", "1">>, <<"q", "=", "1">>, <<"q", "+", "+">>,
      <<"-", "-", "q">>, <<"q", " ", "+", "=", " ", "1">>,
      <<"p", ".", "q", " ", "=", " ", "1">>,
      <<"p", ".", "q", "+", "+">>,
      <<"x", " ", "=", " ", "1">>, <<"x", "+", "+">>, <<"x", ".", "q", " ", "=", " ", "1">>,
      <<"n", " ", "=", " ", "1">>, <<"q", "q", " ", "=", " ", "1">>, <<"q">> }
ExecLocals == {<<>>, [x |-> Num(1)]}
ExecInputs ==
    {[fn |-> "exec", done |-> FALSE, arg |-> [e |-> e, locals |-> l]] :
        e \in Statements, l \in ExecLocals}

\* The event of a rendered element with a listener: self.eval(val, ontv, true).
Executed(r, e) ==
    /\ Apply(r)
    /\ lastOp' = [op |-> "exec", w |-> 0, prop |-> "", vi |-> 0, val |-> Absent,
                  text |-> e, src |-> r.src, warns |-> r.warns,
                  before |-> ModelContent(State)]

Execute ==
    /\ call.fn = "exec" /\ once /\ ops < MaxOps
    /\ Executed(evalStmt(State @@ [tv |-> call.arg.locals, vars |-> <<>>, warns |-> 0,
                                   src |-> <<>>],
                         call.arg.e),
                call.arg.e)
    /\ ops' = ops + 1
    /\ UNCHANGED <<held, def>>

\* ------------------------------------------------------------ child counts
\* Two lists that differ in nothing but the number of their children: node 1
\* is the old one with ll children, node 2 the new one with rl.
CompareCounts == {0, 1, 2, 3, MaxChildren, MaxChildren + 1}
PairDoc(ll, rl) ==
    [nodes |-> DocOf(<< <<El("UL", <<>>), 0>>, <<El("UL", <<>>), 0>> >>
                     \o [i \in 1..ll |-> <<El("LI", <<>>), 1>>]
                     \o [i \in 1..rl |-> <<El("LI", <<>>), 2>>]),
     cache |-> <<>>, data |-> [count |-> 0, items |-> <<>>],
     err |-> "", warns |-> 0, loops |-> <<>>, ret |-> 0, ok |-> TRUE]

CompareInputs ==
    {[fn |-> "compare", done |-> FALSE, arg |-> [ll |-> ll, rl |-> rl]] :
        ll \in CompareCounts, rl \in CompareCounts}

\* What compareNodes answers and what it leaves as the old node's children:
\* how many, how many of them it made (the fillers), and whether the ones
\* it kept are the first of those the node had.
compareResult(c, d) ==
    [compatible |-> c.ok,
     kids |-> Len(c.nodes[1].kids),
     fillers |-> Cardinality({i \in DOMAIN c.nodes[1].kids :
                                 /\ c.nodes[1].kids[i] > Len(d.nodes)
                                 /\ c.nodes[c.nodes[1].kids[i]].tag = "DIV"}),
     kept |-> \A i \in DOMAIN c.nodes[1].kids :
                 i <= Len(d.nodes[1].kids) => c.nodes[1].kids[i] = d.nodes[1].kids[i]]
compare(arg) ==
    compareResult(compareNodes(PairDoc(arg.ll, arg.rl), 1, 2), PairDoc(arg.ll, arg.rl))

Compare ==
    /\ call.fn = "compare" /\ ~call.done
    /\ call' = [call EXCEPT !.done = TRUE] @@ [res |-> compare(call.arg)]
    /\ UNCHANGED <<heap, wr, held, lock, once, renderTimeout, timers, bound, el,
                   shown, created, updates, dirty, log, err, ops, lastOp, def, dom>>

\* ---------------------------------------------- functions applied to inputs
CallInit ==
    /\ ViewIdle
    /\ call \in CtorInputs \cup EvalInputs \cup SignInputs \cup ExecInputs \cup CompareInputs

\* A listener runs on a rendered unit: init and the render timer come with it.
CallNext ==
    \/ Construct
    \/ Evaluate
    \/ Sign
    \/ Compare
    \/ call.fn = "exec" /\ InitBind
    \/ Execute
    \/ \E id \in timers : TimerFire(id)

CallSpec == CallInit /\ [][CallNext]_vars

\* The statement of the last listener run, as written in the template.
Stmt == parseStmt(lastOp.text)
BareKey == Len(Stmt.path) = 1 /\ Stmt.path[1] \in Props
Mutation == Stmt.op \in {"set", "incr", "decr"}

\* C22 (as stated): a statement that assigns to, increments or decrements a
\* bare identifier naming a top-level model key makes one Handler write at
\* that key with the new value, which the model then holds, and a render is
\* requested when the model changed; a statement whose target is anything
\* else (a property after a dot, a local, an unknown name) is left as written
\* by the rewrite, and one whose target is a single name makes no model
\* write.
AssignmentRewriting ==
    (lastOp.op = "exec" /\ Mutation) =>
        IF BareKey
        THEN /\ Cardinality(SetsAt(Stmt.path)) = 1 /\ Cardinality(CallerSets) = 1
             /\ \A i \in CallerSets :
                    /\ RawAt(State, Stmt.path) = log[i].val
                    /\ Stmt.op = "set" => log[i].val = Num(1)
             /\ Stmt.op # "set" => ModelContent(State) # lastOp.before
             /\ ModelContent(State) # lastOp.before => Has("arm") /\ timers # {}
        ELSE /\ lastOp.src = lastOp.text
             /\ Len(Stmt.path) = 1 =>
                    CallerSets = {} /\ ModelContent(State) = lastOp.before

\* ------------------------------------------------------ the wrapper cache
\* The wrappers cached below wrapper w: those a chain of reads starting at w
\* is answered with from this.subtrees.
RECURSIVE CachedBelow(_, _)
CachedBelow(s, w) ==
    UNION {{s.wr[w].sub[k]} \cup CachedBelow(s, s.wr[w].sub[k]) :
              k \in {x \in Props : s.wr[w].sub[x] # 0}}

ViewWrappers == {1} \cup CachedBelow(State, 1)

\* C21 (as stated): among the wrappers cached below view at most one has a
\* given path; a child wrapper is cached for a path only while the model
\* value at that path is an object; and reading a path whose model value is
\* absent or not an object never returns a wrapper handle.
WrapperMemoInvariant ==
    /\ \A a, b \in ViewWrappers :
           keypathOf(State, a) = keypathOf(State, b) => a = b
    /\ \A w \in ViewWrappers, k \in Props :
           StrictAt(State, Ref(1), keypath(State, w, k), 1).t # "ref"
           => /\ wr[w].sub[k] = 0
              /\ getProperty(State, w, k).ret.t # "handle"

\* The model value at the path of handle[prop].
ModelAt(w, prop) == StrictAt(State, Ref(1), keypath(State, w, prop), 1)

\* The keys Object.keys(handle[prop]) and for (k in handle[prop]) give: the
\* Proxy has no ownKeys trap, so they are the own keys of the Proxy's target.
EnumeratedKeys(r) == KeysOf(r, r.wr[r.ret.v].target)

\* C30 (as stated): when the model holds an object at a path and reading the
\* path through the wrappers cached below view returns a handle, the keys that
\* handle enumerates are exactly the keys the model stores at that path.
KeyEnumerationCurrent ==
    \A w \in ViewWrappers, k \in Props :
        (/\ ModelAt(w, k).t = "ref"
         /\ getProperty(State, w, k).err = ""
         /\ getProperty(State, w, k).ret.t = "handle")
        => EnumeratedKeys(getProperty(State, w, k)) = KeysOf(State, ModelAt(w, k).v)

\* C29 (as stated): a render executes only on a unit that init has bound to
\* its template; a scalar write or an erase at a valid path issued before
\* init returns without error and runs no render; and the first render
\* shows the model with the effect of those writes.
NoRenderBeforeBindingStep ==
    /\ Has("render")' => bound'
    /\ (/\ ~bound' /\ Mutating' /\ lastOp'.val.t # "ref"
        /\ ~MissingIntermediate(State, OpPath'))
       => err' = "" /\ ~Has("render")'
    /\ (~once /\ Has("render")' /\ def.created # "write")
       => shown' = ModelContent(State')

NoRenderBeforeBinding == [][NoRenderBeforeBindingStep]_vars

\* C28 (as stated): after the first render, whenever the model's content
\* differs from the content the last executed render used, a render is
\* pending or the unit is locked.
NoSilentMutation ==
    (once /\ ModelContent(State) # shown) => (timers # {} \/ lock)

\* ------------------------------------------------- the conditional element
\* The tree the last render built, before it was reconciled: its root is the
\* first node made after the snapshot.
FreshRoot == Len(dom.before.nodes) + 1
FreshKids(n) == dom.built[n].kids
NodesBuilt == {n \in DOMAIN dom.built : n > Len(dom.before.nodes)}

\* The templates with a v-if element, that element, and the fresh node its
\* output is appended to.
CondTemplates == {k \in DOMAIN Templates : \E i \in DOMAIN Templates[k] : HasAttr(k, i, IfCount)}
CondSite(k) == CHOOSE i \in DOMAIN Templates[k] : HasAttr(k, i, IfCount)
CondInto == IF Templates[dom.tpl][CondSite(dom.tpl)][2] = dom.template
            THEN FreshRoot ELSE FreshKids(FreshRoot)[1]
CondOutput == dom.built[FreshKids(CondInto)[1]]
TemplateSiblings(k) == {i \in DOMAIN Templates[k] : Templates[k][i][2] = Templates[k][CondSite(k)][2]}
CondTags(k) == {Templates[k][Subtree(DocOf(Templates[k]), CondSite(k))[i]][1].tag :
                   i \in DOMAIN Subtree(DocOf(Templates[k]), CondSite(k))} \ {""}

\* C26: a render in which the condition of the v-if element is false
\* appends exactly one comment in its place and makes nothing else for it: no
\* node for the element or its children, no loop entry, no clone, no warning;
\* a render in which it is true appends the element, once per entry when it
\* is iterated; and when the element is not iterated its parent has one child
\* per child of the template's parent whether the condition is true or false.
ConditionalPlaceholder ==
    (RenderDone /\ dom.tpl \in CondTemplates /\ dom.hook = "none") =>
        /\ IsFalsy(dom.shown.count) =>
               /\ FreshKids(CondInto) # <<>>
               /\ CondOutput = [Node("comment", "", <<>>, "v-if") EXCEPT !.parent = CondInto]
               /\ Cardinality({n \in NodesBuilt : dom.built[n].type = "comment"}) = 1
               /\ \A n \in NodesBuilt : dom.built[n].tag \notin CondTags(dom.tpl)
               /\ dom.cache = dom.before.cache
               /\ dom.loops = <<>> /\ dom.warns = 0
        /\ ~IsFalsy(dom.shown.count) =>
               /\ LoopSites(dom.tpl) # {} => Len(FreshKids(CondInto)) = Len(dom.shown.items)
               /\ \A i \in DOMAIN FreshKids(CondInto) :
                      i = 1 \/ LoopSites(dom.tpl) # {} =>
                          /\ dom.built[FreshKids(CondInto)[i]].type = "elem"
                          /\ dom.built[FreshKids(CondInto)[i]].tag
                                 = Templates[dom.tpl][CondSite(dom.tpl)][1].tag
        /\ LoopSites(dom.tpl) = {} =>
               Len(FreshKids(CondInto)) = Cardinality(TemplateSiblings(dom.tpl))

ConditionalPlaceholderWitness ==
    /\ RenderDone /\ dom.last = "render" /\ dom.tpl \in CondTemplates
    /\ LoopSites(dom.tpl) = {}
    /\ IsFalsy(dom.shown.count) /\ ~IsFalsy(dom.before.shown.count)
    /\ FreshKids(CondInto) # <<>>
    /\ CondOutput.type = "comment"
    /\ Len(FreshKids(CondInto)) = Cardinality(TemplateSiblings(dom.tpl))
    /\ dom.err = ""

\* ---------------------------------------------------------------- the root
\* The node the first render attached in the place of the template.
FirstRoot == Len(Templates[dom.tpl]) + 1
Anchor == CHOOSE n \in DOMAIN Templates[dom.tpl] : Templates[dom.tpl][n][2] = 0

\* C25 (as stated): from the first render on, self.$el is the root of the
\* fresh tree of that render, and it is the node, the only one, that stands
\* at the anchor in the place of the template.
RootStability ==
    dom.el # 0 =>
        /\ dom.el = FirstRoot
        /\ dom.nodes[dom.el].parent = Anchor
        /\ dom.nodes[Anchor].kids = <<dom.el>>
        /\ dom.nodes[dom.template].parent = 0

\* ------------------------------------------------------- two loop sites
\* The live parents of the loop sites of a template with several: the
\* children of the root, one list each.
SiteParents == dom.nodes[dom.el].kids
ClonesAt(p) == dom.nodes[p].kids

\* C27 (as stated): after a render of a template with two loop sites that
\* have the same v-for text, each list holds one clone per entry of the
\* collection, in its order, and no site reused in that render the clones
\* another site made in it.
LoopPerSite ==
    (RenderDone /\ dom.err = "" /\ ~dom.pending /\ Cardinality(LoopSites(dom.tpl)) > 1) =>
        /\ \A i \in DOMAIN SiteParents :
               [j \in DOMAIN ClonesAt(SiteParents[i]) |->
                   textContent(dom, ClonesAt(SiteParents[i])[j])]
                   = [j \in DOMAIN dom.data.items |-> ToText(dom.data.items[j])]
        /\ \A i, j \in DOMAIN dom.loops :
               (dom.loops[i].e = "clone" /\ dom.loops[j].e = "reuse")
               => dom.loops[i].site = dom.loops[j].site

\* ------------------------------------------------- what reconcile leaves
\* A tree as reconcile is to leave it: kind, tag, attributes and text of
\* every node with its children in order; a node with the keep marker stands
\* for itself and everything under it.
RECURSIVE Shape(_, _)
Shape(nodes, n) ==
    IF getAttribute(nodes[n], "v-static") = "keep"
    THEN [type |-> "kept", tag |-> "", attrs |-> {}, text |-> "", kids |-> <<>>]
    ELSE [type |-> nodes[n].type, tag |-> nodes[n].tag,
          attrs |-> {nodes[n].attrs[i] : i \in DOMAIN nodes[n].attrs},
          text |-> nodes[n].text,
          kids |-> [i \in DOMAIN nodes[n].kids |-> Shape(nodes, nodes[n].kids[i])]]
ShapeUnder(nodes, root) == [i \in DOMAIN nodes[root].kids |-> Shape(nodes, nodes[root].kids[i])]

\* C23 (as stated): after a reconciliation that ended without error the
\* children of the live root are, position by position and outside kept
\* nodes, what the children of the fresh root were when it started.
ReconcilePostcondition ==
    (RenderDone /\ dom.last = "render" /\ dom.err = "" /\ dom.hook = "none")
    => ShapeUnder(dom.nodes, dom.el) = ShapeUnder(dom.built, FreshRoot)

\* ------------------------------------------------------ child-count tolerance
Compared == call.fn = "compare" /\ call.done
CountsDiffer == call.arg.ll # call.arg.rl

\* C24 (as stated): a difference in child count with both counts at most
\* MaxChildren never makes the pair incompatible, the old node gets exactly
\* the new node's number of children; an old node with more than MaxChildren
\* is incompatible.
ChildCountMismatchTolerated ==
    (Compared /\ CountsDiffer) =>
        /\ (call.arg.ll <= MaxChildren /\ call.arg.rl <= MaxChildren)
           => call.res.compatible /\ call.res.kids = call.arg.rl
        /\ call.arg.ll > MaxChildren => ~call.res.compatible

\* C24 (amended): a difference in child count is tolerated when the old node
\* has at least one and at most MaxChildren children: it keeps its first
\* children and is padded with new DIV elements, or trimmed at the end, to
\* exactly the new node's count, whatever that count is. An old node
\* without children, and one with more than MaxChildren, is incompatible and
\* left with the children it had.
ChildCountTolerance ==
    (Compared /\ CountsDiffer) =>
        IF call.arg.ll = 0 \/ call.arg.ll > MaxChildren
        THEN /\ ~call.res.compatible
             /\ call.res.kids = call.arg.ll /\ call.res.fillers = 0
        ELSE /\ call.res.compatible
             /\ call.res.kids = call.arg.rl /\ call.res.kept
             /\ call.res.fillers = (IF call.arg.rl > call.arg.ll
                                    THEN call.arg.rl - call.arg.ll ELSE 0)

ChildCountToleranceWitness ==
    /\ Compared
    /\ call.arg.ll = MaxChildren /\ call.arg.rl = MaxChildren + 1
    /\ call.res.compatible /\ call.res.kids = MaxChildren + 1 /\ call.res.fillers = 1

====
